---- MODULE Spec2Model ----
(***************************************************************************)
(* State-machine model of the OpenPLC runtime concurrency core:            *)
(*   - the journal buffer (core/src/plc_app/journal_buffer.c),             *)
(*   - the scan thread's tick around journal_apply_and_clear,              *)
(*   - plugin threads that call the journal write callbacks,               *)
(*   - the S7 plugin's RW-area callback reading the image tables.          *)
(* Every pthread_mutex_lock that can block while the caller holds the      *)
(* other mutex is a step of its own, and the apply loops advance one entry *)
(* per step; a critical section that takes the journal mutex alone and     *)
(* cannot block inside is one step.                                        *)
(***************************************************************************)
EXTENDS Integers, Sequences, FiniteSets, TLC

(***************************************************************************)
(* Bounds of the model.  The journal capacity and the table length are     *)
(* 1024 in the program; the model scales them down so that a full journal  *)
(* and an out-of-range index are reached within a few steps.               *)
(***************************************************************************)
JOURNAL_MAX_ENTRIES == 2
BUFFER_SIZE == 2

(***************************************************************************)
(* journal_buffer_type_t                                                   *)
(***************************************************************************)
JOURNAL_BOOL_INPUT == 0
JOURNAL_BOOL_OUTPUT == 1
JOURNAL_BOOL_MEMORY == 2
JOURNAL_BYTE_INPUT == 3
JOURNAL_BYTE_OUTPUT == 4
JOURNAL_INT_INPUT == 5
JOURNAL_INT_OUTPUT == 6
JOURNAL_INT_MEMORY == 7
JOURNAL_DINT_INPUT == 8
JOURNAL_DINT_OUTPUT == 9
JOURNAL_DINT_MEMORY == 10
JOURNAL_LINT_INPUT == 11
JOURNAL_LINT_OUTPUT == 12
JOURNAL_LINT_MEMORY == 13

BoolTypes == {JOURNAL_BOOL_INPUT, JOURNAL_BOOL_OUTPUT, JOURNAL_BOOL_MEMORY}
ByteTypes == {JOURNAL_BYTE_INPUT, JOURNAL_BYTE_OUTPUT}
IntTypes == {JOURNAL_INT_INPUT, JOURNAL_INT_OUTPUT, JOURNAL_INT_MEMORY}
DintTypes == {JOURNAL_DINT_INPUT, JOURNAL_DINT_OUTPUT, JOURNAL_DINT_MEMORY}
LintTypes == {JOURNAL_LINT_INPUT, JOURNAL_LINT_OUTPUT, JOURNAL_LINT_MEMORY}

\* bit_index stored for the non-bool families ("Not applicable")
NO_BIT == 255

\* A slot whose pointer is NULL is unbound.
NULL == -1

\* No thread owns the mutex.
NONE == "none"

(***************************************************************************)
(* Threads: the scan thread, two plugin threads that write through the     *)
(* journal callbacks, one S7 client thread that reads through the RW-area  *)
(* callback.                                                               *)
(***************************************************************************)
SCAN == "scan"
Writers == {"w1", "w2"}
READER == "r1"
Threads == {SCAN, READER} \cup Writers

\* the runtime's main thread, which calls journal_init
MAIN == "main"

\* a plugin thread whose calls exercise the validation and the bounds check
EDGE == "w3"
\* the S7 server's thread, which runs s7comm_rw_area_callback
S7 == "s7"
\* a plugin thread that takes the image mutex around its own work and calls
\* the journal write callbacks
HOOK == "hook"

(***************************************************************************)
(* Image tables.  A cell is addressed <<type, index, bit>>; bit is 0 for   *)
(* the families that are not bool.  image[c] is NULL when the slot's       *)
(* pointer is NULL (unbound), else the value of the cell it points to.     *)
(***************************************************************************)
Cell(t, i, b) == <<t, i, b>>

Cells ==
    {Cell(t, i, b) : t \in BoolTypes, i \in 0..(BUFFER_SIZE - 1), b \in 0..7}
    \cup {Cell(t, i, 0) : t \in (ByteTypes \cup IntTypes \cup DintTypes \cup LintTypes),
                          i \in 0..(BUFFER_SIZE - 1)}

\* stands for the memory outside the tables: no table access may reach it
OUTSIDE == Cell(NULL, NULL, NULL)

\* The control program of the model locates every variable except the last
\* word of int_memory, whose slot therefore stays NULL.
UnboundCells == {Cell(JOURNAL_INT_MEMORY, BUFFER_SIZE - 1, 0)}

\* value & mask for a family of the given width; TLC integers are 32 bits
\* wide, the model's values stay below 2^31, on which the 32- and 64-bit
\* masks are the identity.
MaskTo(v, width) == IF width < 31 THEN v % (2 ^ width) ELSE v

VARIABLES
    g_entries,        \* entries 0 .. g_count-1 of the static array, as a sequence
    g_count,
    g_next_sequence,
    g_initialized,
    g_journal_mutex,  \* owner of the journal mutex, or NONE
    image_mutex,      \* owner of the image mutex (buffer_mutex), or NONE
    image,            \* image tables
    pc,               \* position of each thread
    loop_i,           \* the apply loops' local i, per thread (0 outside the loop)
    req,              \* the arguments of each writer's call in progress
    ret,              \* return value of each writer's last call (NULL: in progress)
    rd,               \* the reader's request in progress and the bytes copied so far
    oob,              \* an entry was stored at index >= JOURNAL_MAX_ENTRIES
    \* history variables: they observe the run and change no program variable
    enqSince,         \* entries stored since the journal was last cleared, in order
    appliedNow,       \* entries passed to apply_entry by the apply loop in progress
    cleared,          \* enqSince as it was when the apply in progress cleared the journal
    flushedSinceTick, \* an emergency flush applied an entry stored since the last tick ended
    lastFlushed,      \* the last entry to a bound cell that an emergency flush applied
                      \* since the last tick's apply
    preApply,         \* writes pending when this tick's apply began, not yet applied
    applyDone,        \* journal_apply_and_clear has returned in the tick in progress
    nStored,          \* writes stored since journal_init, until the first tick applies
    nBody,            \* pending entries that were stored while the last tick was running
    rsnap,            \* image as it was when the reader took the image mutex
    plugin,           \* the S7 plugin's statics and the Snap7 objects and buffers it made
    loop,             \* the scan loop of main: its locals, the clock and the timing statistics
    hooks             \* per plugin instance: the hook calls of the tick in progress

\* the scan thread is between the return of journal_apply_and_clear and the
\* release of the image mutex
TickBody == {"t_cycle_start", "t_run1", "t_run2", "t_update_time", "t_cycle_end",
             "t_unlock"}

vars == <<g_entries, g_count, g_next_sequence, g_initialized, g_journal_mutex,
          image_mutex, image, pc, loop_i, req, ret, rd, oob,
          enqSince, appliedNow, cleared,
          flushedSinceTick, lastFlushed, preApply, applyDone, nStored, nBody, rsnap,
          plugin, loop, hooks>>

\* the variables of the S7 plugin's lifecycle and of the loop of main
extVars == <<plugin, loop, hooks>>

journalVars == <<g_entries, g_count, g_next_sequence, g_initialized>>
histVars == <<enqSince, appliedNow, cleared, flushedSinceTick, lastFlushed, preApply,
              applyDone,
              nStored, nBody, rsnap>>

NoReq == [fn |-> "none"]


(***************************************************************************)
(* Mutexes.  pthread_mutex_lock blocks until the mutex is free.            *)
(***************************************************************************)
Free(m) == m = NONE

(***************************************************************************)
(* apply_entry: apply one journal entry to the image tables.               *)
(***************************************************************************)
\* the cell an entry is written to by apply_entry
TargetOf(e) ==
    Cell(e.buffer_type, e.index, IF e.buffer_type \in BoolTypes THEN e.bit_index ELSE 0)

\* variant: the store is made without the test of the slot's pointer
StoreCellUnchecked(img, c, v) == [img EXCEPT ![c] = v]

StoreCell(img, c, v) == IF img[c] # NULL THEN [img EXCEPT ![c] = v] ELSE img

\* variant: apply_entry without the bounds check on entry->index
apply_entry_unchecked(img, entry) ==
    LET c == TargetOf(entry) IN
    IF c \in Cells THEN StoreCell(img, c, entry.value)
    ELSE [img EXCEPT ![OUTSIDE] = entry.value]

apply_entry(img, entry) ==
    LET idx == entry.index IN
    IF idx >= BUFFER_SIZE THEN img
    ELSE CASE entry.buffer_type \in BoolTypes ->
                StoreCell(img, Cell(entry.buffer_type, idx, entry.bit_index),
                          MaskTo(entry.value, 1))
           [] entry.buffer_type \in ByteTypes ->
                StoreCell(img, Cell(entry.buffer_type, idx, 0), MaskTo(entry.value, 8))
           [] entry.buffer_type \in IntTypes ->
                StoreCell(img, Cell(entry.buffer_type, idx, 0), MaskTo(entry.value, 16))
           [] entry.buffer_type \in DintTypes ->
                StoreCell(img, Cell(entry.buffer_type, idx, 0), MaskTo(entry.value, 32))
           [] entry.buffer_type \in LintTypes ->
                StoreCell(img, Cell(entry.buffer_type, idx, 0), MaskTo(entry.value, 64))
           [] OTHER -> img

\* variant: the loop walks the journal from the newest entry to the oldest
ApplyNextReversed(t) ==
    /\ loop_i[t] < g_count
    /\ LET entry == g_entries[g_count - loop_i[t]] IN
        /\ image' = IF g_initialized THEN apply_entry(image, entry) ELSE image
        /\ appliedNow' = Append(appliedNow, entry)
        /\ preApply' = preApply \ {entry}
        /\ flushedSinceTick' = (flushedSinceTick \/ (t # SCAN /\ loop_i[t] >= nBody))
        /\ lastFlushed' = IF t # SCAN /\ entry.index < BUFFER_SIZE
                             /\ image[TargetOf(entry)] # NULL
                          THEN entry ELSE lastFlushed
    /\ loop_i' = [loop_i EXCEPT ![t] = @ + 1]
    /\ UNCHANGED <<journalVars, enqSince, cleared, applyDone, nStored, nBody,
                   rsnap>>

(***************************************************************************)
(* One iteration of "for (i = 0; i < g_count; i++) apply_entry(...)",      *)
(* the loop of journal_apply_and_clear and of emergency_flush_locked.      *)
(* g_buffer_ptrs is set by journal_init and zeroed by journal_cleanup in   *)
(* the critical sections that set and clear g_initialized: while           *)
(* g_initialized is false buffer_size is 0 and the bounds check of         *)
(* apply_entry returns before any pointer is read.                         *)
(***************************************************************************)
ApplyNext(t) ==
    /\ loop_i[t] < g_count
    /\ LET entry == g_entries[loop_i[t] + 1] IN
        /\ image' = IF g_initialized THEN apply_entry(image, entry) ELSE image
        /\ appliedNow' = Append(appliedNow, entry)
        /\ preApply' = preApply \ {entry}
        /\ flushedSinceTick' = (flushedSinceTick \/ (t # SCAN /\ loop_i[t] >= nBody))
        /\ lastFlushed' = IF t # SCAN /\ entry.index < BUFFER_SIZE
                             /\ image[TargetOf(entry)] # NULL
                          THEN entry ELSE lastFlushed
    /\ loop_i' = [loop_i EXCEPT ![t] = @ + 1]
    /\ UNCHANGED <<journalVars, enqSince, cleared, applyDone, nStored, nBody,
                   rsnap>>

\* variant: the loop stops one entry short, "i < g_count - 1"
ClearJournalDropLast(t) ==
    /\ loop_i[t] >= g_count - 1
    /\ g_count' = 0
    /\ g_next_sequence' = 0
    /\ g_entries' = <<>>
    /\ cleared' = enqSince
    /\ enqSince' = <<>>
    /\ loop_i' = [loop_i EXCEPT ![t] = 0]
    /\ UNCHANGED <<g_initialized, image, appliedNow, flushedSinceTick, lastFlushed,
                   preApply, applyDone, rsnap>>

\* "g_count = 0; g_next_sequence = 0;" once the loop is over
ClearJournal(t) ==
    /\ loop_i[t] >= g_count
    /\ g_count' = 0
    /\ g_next_sequence' = 0
    /\ g_entries' = <<>>
    /\ cleared' = enqSince
    /\ enqSince' = <<>>
    /\ loop_i' = [loop_i EXCEPT ![t] = 0]
    /\ UNCHANGED <<g_initialized, image, appliedNow, flushedSinceTick, lastFlushed,
                   preApply, applyDone, rsnap>>

(***************************************************************************)
(* Journal write callbacks (plugin threads).                               *)
(***************************************************************************)
\* the arguments the model's plugin threads pass to journal_write_bool,
\* <<type, index, bit, value>>: set and clear bit 0 of output byte 0
BoolArgs ==
    {<<JOURNAL_BOOL_OUTPUT, 0, 0, 1>>, <<JOURNAL_BOOL_OUTPUT, 0, 0, 0>>}

\* and to journal_write_int, <<type, index, value>>: a memory word the control
\* program has not bound
IntArgs ==
    {<<JOURNAL_INT_MEMORY, BUFFER_SIZE - 1, 1>>}

\* the calls of the plugin thread EDGE: a bit index out of range; a type code
\* of another family, an index one past the end of the table, the unbound
\* word, and a bound memory word
EdgeBoolArgs ==
    {<<JOURNAL_BOOL_OUTPUT, 0, 8, 1>>}

EdgeIntArgs ==
    {<<JOURNAL_BYTE_OUTPUT, 0, 1>>, <<JOURNAL_INT_MEMORY, BUFFER_SIZE, 1>>,
     <<JOURNAL_INT_MEMORY, BUFFER_SIZE - 1, 1>>, <<JOURNAL_INT_MEMORY, 0, 4660>>}

(***************************************************************************)
(* The S7 plugin: configuration, transcoding and the calls its write path  *)
(* makes.  The plugin's buffer types are kept by name.                     *)
(***************************************************************************)
\* requests one S7 client makes in a run of the model
MaxRequests == 2

NoRuntime == [type |-> "none"]

\* variant: the search returns the first data block when none matches
find_db_runtime_first(db_number) ==
    CASE db_number = 4 -> [type |-> "BUFFER_TYPE_DINT_INPUT", start_buffer |-> 0]
      [] db_number = 5 -> [type |-> "BUFFER_TYPE_LINT_INPUT", start_buffer |-> 0]
      [] db_number = 6 -> [type |-> "BUFFER_TYPE_INT_MEMORY", start_buffer |-> 0]
      [] db_number = 7 -> [type |-> "BUFFER_TYPE_BYTE_OUTPUT", start_buffer |-> 0]
      [] db_number = 10 -> [type |-> "BUFFER_TYPE_INT_INPUT", start_buffer |-> 0]
      [] OTHER -> [type |-> "BUFFER_TYPE_INT_OUTPUT", start_buffer |-> 0]

\* g_db_runtime after initialisation, by db_number: the data blocks of the
\* model's configuration
find_db_runtime(db_number) ==
    CASE db_number = 1 -> [type |-> "BUFFER_TYPE_INT_OUTPUT", start_buffer |-> 0]
      [] db_number = 4 -> [type |-> "BUFFER_TYPE_DINT_INPUT", start_buffer |-> 0]
      [] db_number = 5 -> [type |-> "BUFFER_TYPE_LINT_INPUT", start_buffer |-> 0]
      [] db_number = 6 -> [type |-> "BUFFER_TYPE_INT_MEMORY", start_buffer |-> 0]
      [] db_number = 7 -> [type |-> "BUFFER_TYPE_BYTE_OUTPUT", start_buffer |-> 0]
      [] db_number = 10 -> [type |-> "BUFFER_TYPE_INT_INPUT", start_buffer |-> 0]
      [] OTHER -> NoRuntime

\* the system areas: PE and MK are enabled, PA is not
find_area_runtime(area) ==
    CASE area = "srvAreaPE" -> [type |-> "BUFFER_TYPE_BOOL_INPUT", start_buffer |-> 0]
      [] area = "srvAreaMK" ->
            [type |-> "BUFFER_TYPE_BOOL_MEMORY", start_buffer |-> BUFFER_SIZE - 1]
      [] OTHER -> NoRuntime

map_to_journal_type(type) ==
    CASE type = "BUFFER_TYPE_BOOL_INPUT" -> 0
      [] type = "BUFFER_TYPE_BOOL_OUTPUT" -> 1
      [] type = "BUFFER_TYPE_BOOL_MEMORY" -> 2
      [] type = "BUFFER_TYPE_INT_INPUT" -> 5
      [] type = "BUFFER_TYPE_INT_OUTPUT" -> 6
      [] type = "BUFFER_TYPE_INT_MEMORY" -> 7
      [] type = "BUFFER_TYPE_DINT_INPUT" -> 8
      [] type = "BUFFER_TYPE_DINT_OUTPUT" -> 9
      [] type = "BUFFER_TYPE_DINT_MEMORY" -> 10
      [] type = "BUFFER_TYPE_LINT_INPUT" -> 11
      [] type = "BUFFER_TYPE_LINT_OUTPUT" -> 12
      [] type = "BUFFER_TYPE_LINT_MEMORY" -> 13
      [] OTHER -> -1

\* the family a buffer type belongs to in the switches of
\* read_openplc_to_buffer and write_buffer_to_openplc_journal
S7Family(type) ==
    CASE type \in {"BUFFER_TYPE_BOOL_INPUT", "BUFFER_TYPE_BOOL_OUTPUT",
                   "BUFFER_TYPE_BOOL_MEMORY"} -> "bool"
      [] type \in {"BUFFER_TYPE_INT_INPUT", "BUFFER_TYPE_INT_OUTPUT",
                   "BUFFER_TYPE_INT_MEMORY"} -> "int"
      [] type \in {"BUFFER_TYPE_DINT_INPUT", "BUFFER_TYPE_DINT_OUTPUT",
                   "BUFFER_TYPE_DINT_MEMORY"} -> "dint"
      [] type \in {"BUFFER_TYPE_LINT_INPUT", "BUFFER_TYPE_LINT_OUTPUT",
                   "BUFFER_TYPE_LINT_MEMORY"} -> "lint"
      [] OTHER -> "none"

get_type_size(type) ==
    CASE S7Family(type) = "int" -> 2
      [] S7Family(type) = "dint" -> 4
      [] S7Family(type) = "lint" -> 8
      [] OTHER -> 1

\* the table of g_runtime_args the read functions select for a buffer type;
\* their switch has no case for the byte types
RuntimeTable(type) ==
    CASE type = "BUFFER_TYPE_BOOL_INPUT" -> JOURNAL_BOOL_INPUT
      [] type = "BUFFER_TYPE_BOOL_OUTPUT" -> JOURNAL_BOOL_OUTPUT
      [] type = "BUFFER_TYPE_BOOL_MEMORY" -> JOURNAL_BOOL_MEMORY
      [] type = "BUFFER_TYPE_INT_INPUT" -> JOURNAL_INT_INPUT
      [] type = "BUFFER_TYPE_INT_OUTPUT" -> JOURNAL_INT_OUTPUT
      [] type = "BUFFER_TYPE_INT_MEMORY" -> JOURNAL_INT_MEMORY
      [] type = "BUFFER_TYPE_DINT_INPUT" -> JOURNAL_DINT_INPUT
      [] type = "BUFFER_TYPE_DINT_OUTPUT" -> JOURNAL_DINT_OUTPUT
      [] type = "BUFFER_TYPE_DINT_MEMORY" -> JOURNAL_DINT_MEMORY
      [] type = "BUFFER_TYPE_LINT_INPUT" -> JOURNAL_LINT_INPUT
      [] type = "BUFFER_TYPE_LINT_OUTPUT" -> JOURNAL_LINT_OUTPUT
      [] type = "BUFFER_TYPE_LINT_MEMORY" -> JOURNAL_LINT_MEMORY
      [] OTHER -> NULL    \* default: no table is selected

\* byte p of an unsigned value, byte 0 the least significant; the model's
\* values stay below 2^31, so the bytes above the fourth are 0
ByteOf(v, p) == IF p > 3 THEN 0 ELSE (v \div (256 ^ p)) % 256

\* an n-byte unsigned value as it lies in the memory of the little-endian host
HostBytes(v, n) == [k \in 1..n |-> ByteOf(v, k - 1)]

\* the unsigned value whose bytes lie in memory as bs
HostValue(bs) ==
    LET d(k) == IF k <= Len(bs) THEN bs[k] ELSE 0
    IN d(1) + 256 * d(2) + 65536 * d(3) + 16777216 * d(4)

\* swap16, swap32, swap64 on the memory image of a value: the order of the
\* bytes is reversed
SwapBytes(bs) == [k \in 1..Len(bs) |-> bs[Len(bs) + 1 - k]]

Min(a, b) == IF a < b THEN a ELSE b

\* read_openplc_bool_to_buffer: bit b of dest[byte_idx] is set when slot
\* [start_buffer + byte_idx][b] is bound and its cell is not 0
read_openplc_bool_to_buffer(img, dest, size, type, start_buffer) ==
    LET max_bytes == Min(BUFFER_SIZE - start_buffer, size)
        bitval(i, b) == LET v == img[Cell(RuntimeTable(type), i, b)]
                        IN IF v # NULL /\ v # 0 THEN 2 ^ b ELSE 0
        byte_val(i) == bitval(i, 0) + bitval(i, 1) + bitval(i, 2) + bitval(i, 3)
                       + bitval(i, 4) + bitval(i, 5) + bitval(i, 6) + bitval(i, 7)
    IN [k \in 1..Len(dest) |->
            IF k - 1 < max_bytes THEN byte_val(start_buffer + k - 1) ELSE dest[k]]

\* variant: the words are copied in the byte order of the host
read_openplc_words_no_swap(img, dest, size, type, start_buffer, n) ==
    LET max_words == Min(BUFFER_SIZE - start_buffer, size \div n)
    IN [k \in 1..Len(dest) |->
            LET i == (k - 1) \div n
                j == (k - 1) % n
            IN IF i < max_words
               THEN LET v == img[Cell(RuntimeTable(type), start_buffer + i, 0)]
                    IN IF v # NULL THEN HostBytes(v, n)[j + 1] ELSE dest[k]
               ELSE dest[k]]

\* read_openplc_int_to_buffer, read_openplc_dint_to_buffer and
\* read_openplc_lint_to_buffer, n = 2, 4, 8: s7_words[i] = swapN(*ptr) for the
\* bound slots among the first max_words
read_openplc_words(img, dest, size, type, start_buffer, n) ==
    LET max_words == Min(BUFFER_SIZE - start_buffer, size \div n)
    IN [k \in 1..Len(dest) |->
            LET i == (k - 1) \div n
                j == (k - 1) % n
            IN IF i < max_words
               THEN LET v == img[Cell(RuntimeTable(type), start_buffer + i, 0)]
                    IN IF v # NULL THEN SwapBytes(HostBytes(v, n))[j + 1] ELSE dest[k]
               ELSE dest[k]]

read_openplc_to_buffer(img, dest, size, type, start_buffer) ==
    CASE S7Family(type) = "bool" ->
            read_openplc_bool_to_buffer(img, dest, size, type, start_buffer)
      [] S7Family(type) = "int" ->
            read_openplc_words(img, dest, size, type, start_buffer, 2)
      [] S7Family(type) = "dint" ->
            read_openplc_words(img, dest, size, type, start_buffer, 4)
      [] S7Family(type) = "lint" ->
            read_openplc_words(img, dest, size, type, start_buffer, 8)
      [] OTHER -> dest

\* variant: the element count is not clamped to the room left in the table
NumCallsUnclamped(r) ==
    LET size == Len(r.dest)
        n == CASE S7Family(r.type) = "bool" -> 8 * size
               [] S7Family(r.type) = "none" -> 0
               [] OTHER -> size \div get_type_size(r.type)
    IN IF map_to_journal_type(r.type) < 0 THEN 0 ELSE n

\* the number of journal_write_* calls the write in progress makes
NumCalls(r) ==
    LET size == Len(r.dest)
        room == BUFFER_SIZE - r.start_buffer
        n == CASE S7Family(r.type) = "bool" -> 8 * Min(room, size)
               [] S7Family(r.type) = "none" -> 0
               [] OTHER -> Min(room, size \div get_type_size(r.type))
    IN IF map_to_journal_type(r.type) < 0 \/ n < 0 THEN 0 ELSE n

\* the write loop of family fam is about to make its next call
S7CallReady(fam) ==
    /\ rd.op = "write"
    /\ S7Family(rd.type) = fam
    /\ ret[S7] = NULL
    /\ req[S7] = NoReq
    /\ rd.i < NumCalls(rd)

\* write_bool_to_openplc_journal: call i passes bit i % 8 of byte i / 8
S7BoolArgs ==
    IF S7CallReady("bool")
    THEN {<<map_to_journal_type(rd.type), rd.start_buffer + (rd.i \div 8), rd.i % 8,
            (rd.dest[(rd.i \div 8) + 1] \div (2 ^ (rd.i % 8))) % 2>>}
    ELSE {}

\* variant: the value is passed in the byte order it arrived in
S7WordArgsNoSwap(fam, n) ==
    IF S7CallReady(fam)
    THEN {<<map_to_journal_type(rd.type), rd.start_buffer + rd.i,
            HostValue(SubSeq(rd.dest, n * rd.i + 1, n * rd.i + n))>>}
    ELSE {}

\* write_int_to_openplc_journal, write_dint_to_openplc_journal and
\* write_lint_to_openplc_journal, n = 2, 4, 8: call i passes swapN(s7_words[i])
S7WordArgs(fam, n) ==
    IF S7CallReady(fam)
    THEN {<<map_to_journal_type(rd.type), rd.start_buffer + rd.i,
            HostValue(SwapBytes(SubSeq(rd.dest, n * rd.i + 1, n * rd.i + n)))>>}
    ELSE {}

BoolArgsOf(w) ==
    CASE w = EDGE -> EdgeBoolArgs
      [] w = S7 -> S7BoolArgs
      [] OTHER -> BoolArgs

IntArgsOf(w) ==
    CASE w = EDGE -> EdgeIntArgs
      [] w = S7 -> S7WordArgs("int", 2)
      [] OTHER -> IntArgs

\* only the S7 thread of the model writes double and long words
DintArgsOf(w) == IF w = S7 THEN S7WordArgs("dint", 4) ELSE {}

LintArgsOf(w) == IF w = S7 THEN S7WordArgs("lint", 8) ELSE {}

\* a call that fails validation returns -1; req keeps the rejected arguments
Reject(w, request) ==
    /\ req' = [req EXCEPT ![w] = request]
    /\ ret' = [ret EXCEPT ![w] = -1]
    /\ pc' = [pc EXCEPT ![w] = "idle"]

Return(w, code) ==
    /\ ret' = [ret EXCEPT ![w] = code]
    /\ pc' = [pc EXCEPT ![w] = "idle"]

\* journal_pending_count and journal_get_sequence: g_count and g_next_sequence
\* read under the journal mutex
journal_pending_count == g_count

journal_get_sequence == g_next_sequence

\* the arguments of journal_init: buffer_ptrs NULL, image_mutex NULL, or valid
InitArgs == {"null", "no_mutex", "ok"}

\* journal_init up to pthread_mutex_lock(&g_journal_mutex)
journal_init_check ==
    /\ pc[MAIN] = "idle"
    /\ \E a \in InitArgs :
        IF a # "ok"
        THEN Return(MAIN, -1)
        ELSE /\ pc' = [pc EXCEPT ![MAIN] = "i_lock"]
             /\ ret' = [ret EXCEPT ![MAIN] = NULL]
    /\ UNCHANGED <<journalVars, g_journal_mutex, image_mutex, image, loop_i, req,
                   rd, extVars, oob, histVars>>

\* variant: journal_init leaves g_count and g_next_sequence as they are
journal_init_keep_count ==
    /\ pc[MAIN] = "i_lock"
    /\ Free(g_journal_mutex)
    /\ g_initialized' = TRUE
    /\ Return(MAIN, 0)
    /\ UNCHANGED <<g_entries, g_count, g_next_sequence, g_journal_mutex,
                   image_mutex, image, loop_i, req, rd, extVars, oob, histVars>>

\* journal_init under the journal mutex: copy the pointers, reset the journal,
\* set g_initialized, unlock, return 0
journal_init_locked ==
    /\ pc[MAIN] = "i_lock"
    /\ Free(g_journal_mutex)
    /\ g_count' = 0
    /\ g_next_sequence' = 0
    /\ g_entries' = <<>>
    /\ g_initialized' = TRUE
    /\ enqSince' = <<>>
    /\ nStored' = 0
    /\ nBody' = 0
    /\ Return(MAIN, 0)
    /\ UNCHANGED <<g_journal_mutex, image_mutex, image, loop_i, req, rd, extVars,
                   oob, appliedNow, cleared, flushedSinceTick, lastFlushed,
                   preApply, applyDone, rsnap>>

\* journal_cleanup: under the journal mutex, clear g_initialized, the two
\* counters and g_buffer_ptrs.  The entries that were pending are out of
\* the journal.
journal_cleanup ==
    /\ pc[MAIN] = "idle"
    /\ Free(g_journal_mutex)
    /\ g_initialized' = FALSE
    /\ g_count' = 0
    /\ g_next_sequence' = 0
    /\ g_entries' = <<>>
    /\ enqSince' = <<>>
    /\ nStored' = 0
    /\ nBody' = 0
    /\ UNCHANGED <<g_journal_mutex, image_mutex, image, pc, loop_i, req, ret, rd,
                   extVars, oob, appliedNow, cleared, flushedSinceTick,
                   lastFlushed, preApply, applyDone, rsnap>>

\* a call that passed validation goes on to lock the journal mutex
Proceed(w, request) ==
    /\ req' = [req EXCEPT ![w] = request]
    /\ pc' = [pc EXCEPT ![w] = "w_lock"]
    /\ ret' = [ret EXCEPT ![w] = NULL]

\* variant: journal_write_bool without the test of the bit index
journal_write_bool_any_bit(w) ==
    /\ pc[w] = "idle"
    /\ \E a \in BoolArgsOf(w) :
        LET type == a[1]  index == a[2]  bit == a[3]  value == a[4] IN
        IF ~g_initialized \/ type \notin BoolTypes
        THEN Reject(w, [fn |-> "bool", buffer_type |-> type, index |-> index,
                        bit_index |-> bit, value |-> value])
        ELSE Proceed(w, [fn |-> "bool", buffer_type |-> type, index |-> index,
                         bit_index |-> bit, value |-> IF value # 0 THEN 1 ELSE 0])
    /\ UNCHANGED <<journalVars, g_journal_mutex, image_mutex, image, loop_i, rd,
                   extVars, oob, histVars>>

\* journal_write_bool up to pthread_mutex_lock(&g_journal_mutex)
journal_write_bool(w) ==
    /\ pc[w] = "idle"
    /\ \E a \in BoolArgsOf(w) :
        LET type == a[1]  index == a[2]  bit == a[3]  value == a[4] IN
        IF ~g_initialized \/ type \notin BoolTypes \/ bit > 7
        THEN Reject(w, [fn |-> "bool", buffer_type |-> type, index |-> index,
                        bit_index |-> bit, value |-> value])
        ELSE Proceed(w, [fn |-> "bool", buffer_type |-> type, index |-> index,
                         bit_index |-> bit, value |-> IF value # 0 THEN 1 ELSE 0])
    /\ UNCHANGED <<journalVars, g_journal_mutex, image_mutex, image, loop_i, rd,
                   extVars, oob, histVars>>

\* variant: journal_write_int without the type validation
journal_write_int_any_type(w) ==
    /\ pc[w] = "idle"
    /\ \E a \in IntArgsOf(w) :
        LET type == a[1]  index == a[2]  value == a[3] IN
        IF ~g_initialized
        THEN Reject(w, [fn |-> "int", buffer_type |-> type, index |-> index,
                        bit_index |-> NO_BIT, value |-> value])
        ELSE Proceed(w, [fn |-> "int", buffer_type |-> type, index |-> index,
                         bit_index |-> NO_BIT, value |-> value % 65536])
    /\ UNCHANGED <<journalVars, g_journal_mutex, image_mutex, image, loop_i, rd,
                   extVars, oob, histVars>>

\* journal_write_int up to pthread_mutex_lock(&g_journal_mutex)
journal_write_int(w) ==
    /\ pc[w] = "idle"
    /\ \E a \in IntArgsOf(w) :
        LET type == a[1]  index == a[2]  value == a[3] IN
        IF ~g_initialized \/ type \notin IntTypes
        THEN Reject(w, [fn |-> "int", buffer_type |-> type, index |-> index,
                        bit_index |-> NO_BIT, value |-> value])
        ELSE Proceed(w, [fn |-> "int", buffer_type |-> type, index |-> index,
                         bit_index |-> NO_BIT, value |-> value % 65536])
    /\ UNCHANGED <<journalVars, g_journal_mutex, image_mutex, image, loop_i, rd,
                   extVars, oob, histVars>>

\* journal_write_dint up to pthread_mutex_lock(&g_journal_mutex)
journal_write_dint(w) ==
    /\ pc[w] = "idle"
    /\ \E a \in DintArgsOf(w) :
        LET type == a[1]  index == a[2]  value == a[3] IN
        IF ~g_initialized \/ type \notin DintTypes
        THEN Reject(w, [fn |-> "dint", buffer_type |-> type, index |-> index,
                        bit_index |-> NO_BIT, value |-> value])
        ELSE Proceed(w, [fn |-> "dint", buffer_type |-> type, index |-> index,
                         bit_index |-> NO_BIT, value |-> value])
    /\ UNCHANGED <<journalVars, g_journal_mutex, image_mutex, image, loop_i, rd,
                   extVars, oob, histVars>>

\* journal_write_lint up to pthread_mutex_lock(&g_journal_mutex)
journal_write_lint(w) ==
    /\ pc[w] = "idle"
    /\ \E a \in LintArgsOf(w) :
        LET type == a[1]  index == a[2]  value == a[3] IN
        IF ~g_initialized \/ type \notin LintTypes
        THEN Reject(w, [fn |-> "lint", buffer_type |-> type, index |-> index,
                        bit_index |-> NO_BIT, value |-> value])
        ELSE Proceed(w, [fn |-> "lint", buffer_type |-> type, index |-> index,
                         bit_index |-> NO_BIT, value |-> value])
    /\ UNCHANGED <<journalVars, g_journal_mutex, image_mutex, image, loop_i, rd,
                   extVars, oob, histVars>>

\* variant: "if (g_count > JOURNAL_MAX_ENTRIES)"
JournalFullOffByOne == g_count > JOURNAL_MAX_ENTRIES

\* add_entry_locked: "if (g_count >= JOURNAL_MAX_ENTRIES)"
JournalFull == g_count >= JOURNAL_MAX_ENTRIES

\* variant: "entry->sequence = g_next_sequence", without the increment
StoreEntryNoIncrement(w) ==
    LET entry == [sequence |-> g_next_sequence,
                  buffer_type |-> req[w].buffer_type,
                  bit_index |-> req[w].bit_index,
                  index |-> req[w].index,
                  value |-> req[w].value]
    IN
    /\ IF g_count >= JOURNAL_MAX_ENTRIES
       THEN /\ oob' = TRUE
            /\ UNCHANGED g_entries
       ELSE /\ g_entries' = IF g_count < Len(g_entries)
                            THEN [g_entries EXCEPT ![g_count + 1] = entry]
                            ELSE Append(g_entries, entry)
            /\ UNCHANGED oob
    /\ UNCHANGED g_next_sequence
    /\ g_count' = g_count + 1
    /\ enqSince' = Append(enqSince, entry)
    /\ nStored' = IF nStored <= JOURNAL_MAX_ENTRIES + 1 THEN nStored + 1 ELSE nStored
    /\ nBody' = IF pc[SCAN] \in TickBody THEN nBody + 1 ELSE nBody
    /\ UNCHANGED <<g_initialized, appliedNow, cleared, flushedSinceTick,
                   lastFlushed, preApply, applyDone, rsnap>>

\* "entry = &g_entries[g_count]; entry->sequence = g_next_sequence++; g_count++;"
\* followed by the caller's assignments to the entry's other fields
StoreEntry(w) ==
    LET entry == [sequence |-> g_next_sequence,
                  buffer_type |-> req[w].buffer_type,
                  bit_index |-> req[w].bit_index,
                  index |-> req[w].index,
                  value |-> req[w].value]
    IN
    /\ IF g_count >= JOURNAL_MAX_ENTRIES
       THEN /\ oob' = TRUE
            /\ UNCHANGED g_entries
       ELSE /\ g_entries' = IF g_count < Len(g_entries)
                            THEN [g_entries EXCEPT ![g_count + 1] = entry]
                            ELSE Append(g_entries, entry)
            /\ UNCHANGED oob
    /\ g_next_sequence' = g_next_sequence + 1
    /\ g_count' = g_count + 1
    /\ enqSince' = Append(enqSince, entry)
    /\ nStored' = IF nStored <= JOURNAL_MAX_ENTRIES + 1 THEN nStored + 1 ELSE nStored
    /\ nBody' = IF pc[SCAN] \in TickBody THEN nBody + 1 ELSE nBody
    /\ UNCHANGED <<g_initialized, appliedNow, cleared, flushedSinceTick,
                   lastFlushed, preApply, applyDone, rsnap>>

\* the critical section of a journal_write_* call when the journal is not full:
\* pthread_mutex_lock(&g_journal_mutex), add_entry_locked, the caller's field
\* writes, pthread_mutex_unlock(&g_journal_mutex), return 0
add_entry_locked(w) ==
    /\ pc[w] = "w_lock"
    /\ Free(g_journal_mutex)
    /\ ~JournalFull
    /\ StoreEntry(w)
    /\ Return(w, 0)
    /\ req' = [req EXCEPT ![w] = NoReq]
    /\ UNCHANGED <<g_journal_mutex, image_mutex, image, loop_i, rd, extVars>>

\* variant: emergency_flush_locked goes for the image mutex without releasing
\* the journal mutex
emergency_flush_keep_journal(w) ==
    /\ pc[w] = "w_lock"
    /\ Free(g_journal_mutex)
    /\ JournalFull
    /\ g_journal_mutex' = w
    /\ pc' = [pc EXCEPT ![w] = "f_lock_image"]
    /\ UNCHANGED <<journalVars, image_mutex, image, loop_i, req, ret, rd, extVars,
                   oob, histVars>>

\* pthread_mutex_lock(&g_journal_mutex), then add_entry_locked finds the journal
\* full: emergency_flush_locked is entered and releases the journal mutex
emergency_flush_unlock_journal(w) ==
    /\ pc[w] = "w_lock"
    /\ Free(g_journal_mutex)
    /\ JournalFull
    /\ g_journal_mutex' = NONE
    /\ pc' = [pc EXCEPT ![w] = "f_lock_image"]
    /\ UNCHANGED <<journalVars, image_mutex, image, loop_i, req, ret, rd, extVars,
                   oob, histVars>>

\* variant: the flush goes on without the image mutex
emergency_flush_skip_image_lock(w) ==
    /\ pc[w] = "f_lock_image"
    /\ pc' = [pc EXCEPT ![w] = "f_lock_journal"]
    /\ UNCHANGED <<journalVars, g_journal_mutex, image_mutex, image, loop_i, req,
                   ret, rd, extVars, oob, histVars>>

\* pthread_mutex_lock(g_buffer_ptrs.image_mutex)
emergency_flush_lock_image(w) ==
    /\ pc[w] = "f_lock_image"
    /\ g_initialized
    /\ Free(image_mutex)
    /\ image_mutex' = w
    /\ pc' = [pc EXCEPT ![w] = "f_lock_journal"]
    /\ UNCHANGED <<journalVars, g_journal_mutex, image, loop_i, req, ret, rd,
                   extVars, oob, histVars>>

\* pthread_mutex_lock(&g_journal_mutex), re-acquired
emergency_flush_lock_journal(w) ==
    /\ pc[w] = "f_lock_journal"
    /\ Free(g_journal_mutex)
    /\ g_journal_mutex' = w
    /\ loop_i' = [loop_i EXCEPT ![w] = 0]
    /\ pc' = [pc EXCEPT ![w] = "f_loop"]
    /\ UNCHANGED <<journalVars, image_mutex, image, req, ret, rd, extVars, oob,
                   histVars>>

\* one iteration of the flush's apply loop
emergency_flush_apply(w) ==
    /\ pc[w] = "f_loop"
    /\ ApplyNext(w)
    /\ UNCHANGED <<g_journal_mutex, image_mutex, pc, req, ret, rd, extVars, oob>>

\* end of the loop: clear the journal
emergency_flush_clear(w) ==
    /\ pc[w] = "f_loop"
    /\ ClearJournal(w)
    /\ nBody' = 0
    /\ pc' = [pc EXCEPT ![w] = "f_unlock_image"]
    /\ UNCHANGED <<g_journal_mutex, image_mutex, req, ret, rd, extVars, oob,
                   nStored>>

\* variant: emergency_flush_locked returns without releasing the image mutex
emergency_flush_leak_image(w) ==
    /\ pc[w] = "f_unlock_image"
    /\ pc' = [pc EXCEPT ![w] = "f_add"]
    /\ appliedNow' = <<>>
    /\ cleared' = <<>>
    /\ UNCHANGED <<journalVars, g_journal_mutex, image_mutex, image, loop_i, req,
                   ret, rd, extVars, oob, enqSince, flushedSinceTick, lastFlushed,
                   preApply, applyDone, nStored, nBody, rsnap>>

\* pthread_mutex_unlock(g_buffer_ptrs.image_mutex); the journal mutex stays held
emergency_flush_unlock_image(w) ==
    /\ pc[w] = "f_unlock_image"
    /\ g_initialized
    /\ image_mutex' = NONE
    /\ pc' = [pc EXCEPT ![w] = "f_add"]
    /\ appliedNow' = <<>>
    /\ cleared' = <<>>
    /\ UNCHANGED <<journalVars, g_journal_mutex, image, loop_i, req, ret, rd,
                   extVars, oob, enqSince, flushedSinceTick, lastFlushed, preApply,
                   applyDone, nStored, nBody, rsnap>>

\* emergency_flush_locked after journal_cleanup has zeroed g_buffer_ptrs:
\* pthread_mutex_lock or pthread_mutex_unlock is given the NULL image_mutex,
\* which is undefined; the process is taken to stop there
emergency_flush_null_mutex(w) ==
    /\ pc[w] \in {"f_lock_image", "f_unlock_image"}
    /\ ~g_initialized
    /\ pc' = [pc EXCEPT ![w] = "crashed"]
    /\ UNCHANGED <<journalVars, g_journal_mutex, image_mutex, image, loop_i, req,
                   ret, rd, extVars, oob, histVars>>

\* add_entry_locked after emergency_flush_locked has returned, the caller's
\* field writes, pthread_mutex_unlock(&g_journal_mutex), return 0
add_entry_after_flush(w) ==
    /\ pc[w] = "f_add"
    /\ StoreEntry(w)
    /\ g_journal_mutex' = NONE
    /\ Return(w, 0)
    /\ req' = [req EXCEPT ![w] = NoReq]
    /\ UNCHANGED <<image_mutex, image, loop_i, rd, extVars>>

(***************************************************************************)
(* The scan thread.  One tick: take the image mutex, journal_apply_and_    *)
(* clear, cycle_start hooks, config_run__, updateTime, cycle_end hooks,    *)
(* release the image mutex, sleep.                                         *)
(***************************************************************************)
\* variant: the tick goes from the lock straight to the cycle_start hooks
tick_lock_image_skip_apply ==
    /\ pc[SCAN] = "t_lock"
    /\ Free(image_mutex)
    /\ image_mutex' = SCAN
    /\ pc' = [pc EXCEPT ![SCAN] = "t_cycle_start"]
    /\ UNCHANGED <<journalVars, g_journal_mutex, image, loop_i, req, ret, rd,
                   extVars, oob, histVars>>

\* pthread_mutex_lock(&image_mutex) at the start of the tick
tick_lock_image ==
    /\ pc[SCAN] = "t_lock"
    /\ Free(image_mutex)
    /\ image_mutex' = SCAN
    /\ pc' = [pc EXCEPT ![SCAN] = "a_lock"]
    /\ UNCHANGED <<journalVars, g_journal_mutex, image, loop_i, req, ret, rd,
                   extVars, oob, histVars>>

\* journal_apply_and_clear: "if (!g_initialized) return;", else
\* pthread_mutex_lock(&g_journal_mutex)
journal_apply_lock ==
    /\ pc[SCAN] = "a_lock"
    /\ IF ~g_initialized
       THEN /\ pc' = [pc EXCEPT ![SCAN] = "t_cycle_start"]
            /\ applyDone' = TRUE
            /\ UNCHANGED <<g_journal_mutex, loop_i, preApply>>
       ELSE /\ Free(g_journal_mutex)
            /\ g_journal_mutex' = SCAN
            /\ loop_i' = [loop_i EXCEPT ![SCAN] = 0]
            /\ preApply' = {enqSince[k] : k \in 1..Len(enqSince)}
            /\ pc' = [pc EXCEPT ![SCAN] = "a_loop"]
            /\ UNCHANGED applyDone
    /\ UNCHANGED <<journalVars, image_mutex, image, req, ret, rd, extVars, oob,
                   enqSince, appliedNow, cleared, flushedSinceTick, lastFlushed,
                   nStored, nBody, rsnap>>

\* journal_apply_and_clear with the test of g_initialized and the lock as two
\* steps: the test passes and the thread goes on to pthread_mutex_lock, where
\* it takes the journal mutex once it is free, whatever g_initialized is by
\* then
journal_apply_checked ==
    /\ \/ /\ pc[SCAN] = "a_lock"
          /\ g_initialized
          /\ pc' = [pc EXCEPT ![SCAN] = "a_wait"]
          /\ UNCHANGED <<g_journal_mutex, loop_i, preApply>>
       \/ /\ pc[SCAN] = "a_wait"
          /\ Free(g_journal_mutex)
          /\ g_journal_mutex' = SCAN
          /\ loop_i' = [loop_i EXCEPT ![SCAN] = 0]
          /\ preApply' = {enqSince[k] : k \in 1..Len(enqSince)}
          /\ pc' = [pc EXCEPT ![SCAN] = "a_loop"]
    /\ UNCHANGED <<journalVars, image_mutex, image, req, ret, rd, extVars, oob,
                   enqSince, appliedNow, cleared, flushedSinceTick, lastFlushed,
                   applyDone, nStored, nBody, rsnap>>

\* variant: the loop advances without applying the entry
journal_apply_skip_entry ==
    /\ pc[SCAN] = "a_loop"
    /\ loop_i[SCAN] < g_count
    /\ loop_i' = [loop_i EXCEPT ![SCAN] = @ + 1]
    /\ UNCHANGED <<journalVars, g_journal_mutex, image_mutex, image, pc, req, ret,
                   rd, extVars, oob, histVars>>

\* journal_apply_and_clear: one iteration of the apply loop
journal_apply_entry ==
    /\ pc[SCAN] = "a_loop"
    /\ ApplyNext(SCAN)
    /\ UNCHANGED <<g_journal_mutex, image_mutex, pc, req, ret, rd, extVars, oob>>

\* variant: the tick leaves the applied entries in the journal
journal_apply_clear_no_reset ==
    /\ pc[SCAN] = "a_loop"
    /\ loop_i[SCAN] >= g_count
    /\ cleared' = enqSince
    /\ enqSince' = <<>>
    /\ loop_i' = [loop_i EXCEPT ![SCAN] = 0]
    /\ nStored' = JOURNAL_MAX_ENTRIES + 2
    /\ UNCHANGED nBody
    /\ pc' = [pc EXCEPT ![SCAN] = "a_unlock"]
    /\ UNCHANGED <<journalVars, g_journal_mutex, image_mutex, image, req, ret, rd,
                   extVars, oob, appliedNow, flushedSinceTick, lastFlushed,
                   preApply, applyDone, rsnap>>

\* journal_apply_and_clear: clear the journal
journal_apply_clear ==
    /\ pc[SCAN] = "a_loop"
    /\ ClearJournal(SCAN)
    /\ nStored' = JOURNAL_MAX_ENTRIES + 2
    /\ UNCHANGED nBody
    /\ pc' = [pc EXCEPT ![SCAN] = "a_unlock"]
    /\ UNCHANGED <<g_journal_mutex, image_mutex, req, ret, rd, extVars, oob>>

\* journal_apply_and_clear: pthread_mutex_unlock(&g_journal_mutex) and return
journal_apply_unlock ==
    /\ pc[SCAN] = "a_unlock"
    /\ g_journal_mutex' = NONE
    /\ applyDone' = TRUE
    /\ flushedSinceTick' = FALSE
    /\ lastFlushed' = NoReq
    /\ nBody' = 0
    /\ pc' = [pc EXCEPT ![SCAN] = "t_cycle_start"]
    /\ UNCHANGED <<journalVars, image_mutex, image, loop_i, req, ret, rd, extVars,
                   oob, enqSince, appliedNow, cleared, preApply, nStored, rsnap>>

\* the plugin instances of the driver and the optional hooks each exports:
\* the S7 plugin and the test plugin export both, one instance exports
\* cycle_start alone and one exports neither
Instances ==
    [n \in {"s7comm", "test_plugin", "start_only", "no_hooks"} |->
        [cycle_start |-> n # "no_hooks",
         cycle_end |-> n \in {"s7comm", "test_plugin"}]]

\* no hook has been called in the tick; locked: every call so far was made
\* by a thread that held the image mutex
NoHookCalls ==
    [n \in DOMAIN Instances |-> [cycle_start |-> 0, cycle_end |-> 0, locked |-> TRUE]]

\* variant: the hook is called on every instance
cycle_hooks_all(h, hook) ==
    [n \in DOMAIN h |-> [h[n] EXCEPT ![hook] = @ + 1,
                                     !.locked = @ /\ image_mutex = SCAN]]

\* "for those with a cycle_start export, call it; same for cycle_end": the
\* hooks of s7comm_plugin.cpp and test_plugin.c take no mutex and touch
\* neither the tables nor the journal
cycle_hooks(h, hook) ==
    [n \in DOMAIN h |->
        IF Instances[n][hook]
        THEN [h[n] EXCEPT ![hook] = @ + 1, !.locked = @ /\ image_mutex = SCAN]
        ELSE h[n]]

\* plugin_driver_cycle_start: the cycle_start hooks of the plugins
plugin_driver_cycle_start ==
    /\ pc[SCAN] = "t_cycle_start"
    /\ hooks' = cycle_hooks(hooks, "cycle_start")
    /\ appliedNow' = <<>>
    /\ cleared' = <<>>
    /\ pc' = [pc EXCEPT ![SCAN] = "t_run1"]
    /\ UNCHANGED <<journalVars, g_journal_mutex, image_mutex, image, loop_i, req,
                   ret, rd, plugin, loop, oob, enqSince, flushedSinceTick,
                   lastFlushed, preApply, applyDone, nStored, nBody, rsnap>>

\* ext_config_run__(tick__++): the control program of the model flips the
\* output word 0 and copies it to the output word 1, one store per step
config_run_first ==
    /\ pc[SCAN] = "t_run1"
    /\ image' = [image EXCEPT ![Cell(JOURNAL_INT_OUTPUT, 0, 0)] = (1 - @) % 65536]
    /\ pc' = [pc EXCEPT ![SCAN] = "t_run2"]
    /\ UNCHANGED <<journalVars, g_journal_mutex, image_mutex, loop_i, req, ret, rd,
                   extVars, oob, histVars>>

config_run_second ==
    /\ pc[SCAN] = "t_run2"
    /\ image' = [image EXCEPT ![Cell(JOURNAL_INT_OUTPUT, 1, 0)] =
                      image[Cell(JOURNAL_INT_OUTPUT, 0, 0)]]
    /\ pc' = [pc EXCEPT ![SCAN] = "t_update_time"]
    /\ UNCHANGED <<journalVars, g_journal_mutex, image_mutex, loop_i, req, ret, rd,
                   extVars, oob, histVars>>

\* ext_updateTime()
update_time ==
    /\ pc[SCAN] = "t_update_time"
    /\ pc' = [pc EXCEPT ![SCAN] = "t_cycle_end"]
    /\ UNCHANGED <<journalVars, g_journal_mutex, image_mutex, image, loop_i, req,
                   ret, rd, extVars, oob, histVars>>

\* plugin_driver_cycle_end: the cycle_end hooks
plugin_driver_cycle_end ==
    /\ pc[SCAN] = "t_cycle_end"
    /\ hooks' = cycle_hooks(hooks, "cycle_end")
    /\ pc' = [pc EXCEPT ![SCAN] = "t_unlock"]
    /\ UNCHANGED <<journalVars, g_journal_mutex, image_mutex, image, loop_i, req,
                   ret, rd, plugin, loop, oob, histVars>>

\* pthread_mutex_unlock(&image_mutex) at the end of the tick
tick_unlock_image ==
    /\ pc[SCAN] = "t_unlock"
    /\ image_mutex' = NONE
    /\ applyDone' = FALSE
    /\ preApply' = {}
    /\ hooks' = NoHookCalls
    /\ pc' = [pc EXCEPT ![SCAN] = "t_sleep"]
    /\ UNCHANGED <<journalVars, g_journal_mutex, image, loop_i, req, ret, rd,
                   plugin, loop, oob, enqSince, appliedNow, cleared,
                   flushedSinceTick, lastFlushed, nStored, nBody, rsnap>>

\* sleep_until(&timer_start, *ext_common_ticktime__) returns: the next tick starts
sleep_until ==
    /\ pc[SCAN] = "t_sleep"
    /\ pc' = [pc EXCEPT ![SCAN] = "t_lock"]
    /\ UNCHANGED <<journalVars, g_journal_mutex, image_mutex, image, loop_i, req,
                   ret, rd, extVars, oob, histVars>>

(***************************************************************************)
(* The S7 client thread: s7comm_rw_area_callback with OperationRead on a   *)
(* data block mapped to a 16-bit family.                                   *)
(***************************************************************************)
\* the read requests of the model: <<family, db->start_buffer, PTag->Start, PTag->Size>>
ReadArgs == {<<JOURNAL_INT_OUTPUT, 0, 0, 4>>}

NoRead == [type |-> NULL]

\* lines 1058-1079: size = PTag->Size; start_buffer = db->start_buffer + Start / 2
rw_area_read_begin ==
    /\ pc[READER] = "idle"
    /\ \E a \in ReadArgs :
        rd' = [type |-> a[1], start_buffer |-> a[2] + (a[3] \div 2), size |-> a[4],
               i |-> 0, dest |-> [k \in 1..a[4] |-> 0]]
    /\ pc' = [pc EXCEPT ![READER] = "r_take"]
    /\ UNCHANGED <<journalVars, g_journal_mutex, image_mutex, image, loop_i, req,
                   ret, oob, histVars, extVars>>

\* variant: the callback reads without taking the image mutex
mutex_take_unlocked ==
    /\ pc[READER] = "r_take"
    /\ rsnap' = image
    /\ pc' = [pc EXCEPT ![READER] = "r_copy"]
    /\ UNCHANGED <<journalVars, g_journal_mutex, image_mutex, image, loop_i, req,
                   ret, rd, extVars, oob, enqSince, appliedNow, cleared,
                   flushedSinceTick, lastFlushed, preApply, applyDone, nStored,
                   nBody>>

\* g_runtime_args.mutex_take(g_runtime_args.buffer_mutex)
mutex_take ==
    /\ pc[READER] = "r_take"
    /\ Free(image_mutex)
    /\ image_mutex' = READER
    /\ rsnap' = image
    /\ pc' = [pc EXCEPT ![READER] = "r_copy"]
    /\ UNCHANGED <<journalVars, g_journal_mutex, image, loop_i, req, ret, rd,
                   extVars, oob, enqSince, appliedNow, cleared, flushedSinceTick,
                   lastFlushed, preApply, applyDone, nStored, nBody>>

\* number of words read_openplc_int_to_buffer copies
MaxWords(r) ==
    LET num_words == r.size \div 2
        max_words == BUFFER_SIZE - r.start_buffer
    IN IF max_words > num_words THEN num_words ELSE max_words

\* read_openplc_int_to_buffer: one iteration, s7_words[i] = swap16(*ptr)
read_openplc_int_to_buffer ==
    /\ pc[READER] = "r_copy"
    /\ rd.i < MaxWords(rd)
    /\ LET v == image[Cell(rd.type, rd.start_buffer + rd.i, 0)] IN
        rd' = [rd EXCEPT !.i = @ + 1,
                         !.dest = IF v # NULL
                                  THEN [@ EXCEPT ![2 * rd.i + 1] = v \div 256,
                                                 ![2 * rd.i + 2] = v % 256]
                                  ELSE @]
    /\ UNCHANGED <<journalVars, g_journal_mutex, image_mutex, image, pc, loop_i,
                   req, ret, oob, histVars, extVars>>

\* the copy loop is over
read_openplc_done ==
    /\ pc[READER] = "r_copy"
    /\ rd.i >= MaxWords(rd)
    /\ pc' = [pc EXCEPT ![READER] = "r_give"]
    /\ UNCHANGED <<journalVars, g_journal_mutex, image_mutex, image, loop_i, req,
                   ret, rd, extVars, oob, histVars>>

\* g_runtime_args.mutex_give(g_runtime_args.buffer_mutex); return 0
mutex_give ==
    /\ pc[READER] = "r_give"
    /\ image_mutex' = NONE
    /\ rd' = NoRead
    /\ rsnap' = <<>>
    /\ pc' = [pc EXCEPT ![READER] = "idle"]
    /\ UNCHANGED <<journalVars, g_journal_mutex, image, loop_i, req, ret, oob,
                   enqSince, appliedNow, cleared, flushedSinceTick, lastFlushed,
                   preApply, applyDone, nStored, nBody, extVars>>

(***************************************************************************)
(* The S7 server's thread: s7comm_rw_area_callback, whole.                 *)
(***************************************************************************)
\* a request as Snap7 passes it: Operation, PTag->Area, PTag->DBNumber,
\* PTag->Start, PTag->Size and the bytes at pUsrData (ok: neither pointer NULL)
Rq(op, area, db, start, data) ==
    [op |-> op, area |-> area, db |-> db, start |-> start, size |-> Len(data),
     data |-> data, ok |-> TRUE]

\* reads of the configured areas: aligned, unaligned, of the unbound word
ReadRequests ==
    {Rq("read", "srvAreaDB", 10, 0, <<0, 0, 0, 0>>),
     Rq("read", "srvAreaDB", 10, 1, <<0, 0>>),
     Rq("read", "srvAreaDB", 6, 0, <<0, 0>>),
     Rq("read", "srvAreaDB", 6, 2 * (BUFFER_SIZE - 1), <<0, 0>>),
     Rq("read", "srvAreaDB", 1, 2, <<0, 0>>),
     Rq("read", "srvAreaDB", 4, 0, <<0, 0, 0, 0>>),
     Rq("read", "srvAreaDB", 5, 0, <<0, 0, 0, 0, 0, 0, 0, 0>>),
     Rq("read", "srvAreaMK", 0, 0, <<0>>),
     Rq("read", "srvAreaPE", 0, 0, <<0>>)}

\* writes to output, memory and input families
WriteRequests ==
    {Rq("write", "srvAreaDB", 1, 2, <<0, 255>>),
     Rq("write", "srvAreaDB", 6, 0, <<18, 52>>),
     Rq("write", "srvAreaMK", 0, 0, <<129>>),
     Rq("write", "srvAreaPE", 0, 0, <<1, 2>>),
     Rq("write", "srvAreaDB", 10, 0, <<0, 1>>),
     Rq("write", "srvAreaDB", 4, 0, <<0, 0, 0, 1>>),
     Rq("write", "srvAreaDB", 5, 0, <<0, 0, 0, 0, 0, 0, 0, 1>>)}

\* a data block that is not configured, the disabled area PA, an offset past
\* the end of the table, a length that runs past the end of the table, a NULL
\* pUsrData, and the data block mapped to byte_output
OddRequests ==
    {Rq("read", "srvAreaDB", 7, 0, <<0>>),
     Rq("write", "srvAreaDB", 7, 0, <<171>>),
     Rq("read", "srvAreaDB", 99, 0, <<0, 0>>),
     Rq("write", "srvAreaDB", 99, 0, <<0, 1>>),
     Rq("read", "srvAreaPA", 0, 0, <<0>>),
     Rq("write", "srvAreaPA", 0, 0, <<1>>),
     Rq("read", "srvAreaDB", 10, 2 * BUFFER_SIZE, <<0, 0>>),
     Rq("write", "srvAreaDB", 6, 2 * BUFFER_SIZE, <<0, 1>>),
     Rq("read", "srvAreaDB", 10, 2 * (BUFFER_SIZE - 1), <<0, 0, 0, 0>>),
     Rq("write", "srvAreaDB", 6, 2 * (BUFFER_SIZE - 1), <<0, 1, 0, 2>>),
     [Rq("read", "srvAreaDB", 10, 0, <<>>) EXCEPT !.ok = FALSE]}

S7Requests == ReadRequests \cup WriteRequests \cup OddRequests

\* the S7 thread outside the callback; last is the last write request that
\* returned, n the number of requests made
S7Idle ==
    [op |-> "none", type |-> "none", start_buffer |-> 0, i |-> 0, dest |-> <<>>,
     tag |-> NoReq, result |-> 0, last |-> NoReq, n |-> 0]

\* the callback returns code
S7Return(r, code) ==
    [r EXCEPT !.op = "none", !.type = "none", !.start_buffer = 0, !.i = 0,
              !.result = code,
              !.last = IF r.op = "write" THEN r.tag ELSE @]

\* the runtime structure the callback finds for a request
RuntimeOf(r) ==
    IF r.area = "srvAreaDB" THEN find_db_runtime(r.db) ELSE find_area_runtime(r.area)

\* s7comm_rw_area_callback up to the branch on Operation
s7comm_rw_area_callback ==
    /\ pc[S7] = "idle"
    /\ rd.op = "none"
    /\ rd.n < MaxRequests
    /\ \E r \in S7Requests :
        LET begun == [rd EXCEPT !.tag = r, !.n = @ + 1, !.dest = r.data,
                                !.result = NULL]
            rt == RuntimeOf(r)
            start_buffer == rt.start_buffer + (r.start \div get_type_size(rt.type))
        IN
        IF ~r.ok
        THEN /\ rd' = S7Return(begun, -1)
             /\ UNCHANGED <<pc, ret>>
        ELSE IF rt = NoRuntime
        THEN /\ rd' = S7Return(begun, 0)
             /\ UNCHANGED <<pc, ret>>
        ELSE IF r.op = "read"
        THEN /\ rd' = [begun EXCEPT !.op = "read", !.type = rt.type,
                                    !.start_buffer = start_buffer]
             /\ pc' = [pc EXCEPT ![S7] = "c_take"]
             /\ UNCHANGED ret
        ELSE /\ rd' = [begun EXCEPT !.op = "write", !.type = rt.type,
                                    !.start_buffer = start_buffer]
             /\ ret' = [ret EXCEPT ![S7] = NULL]
             /\ UNCHANGED pc
    /\ UNCHANGED <<journalVars, g_journal_mutex, image_mutex, image, loop_i, req,
                   oob, histVars, extVars>>

\* OperationRead: g_runtime_args.mutex_take(g_runtime_args.buffer_mutex)
rw_area_mutex_take ==
    /\ pc[S7] = "c_take"
    /\ Free(image_mutex)
    /\ image_mutex' = S7
    /\ pc' = [pc EXCEPT ![S7] = "c_copy"]
    /\ UNCHANGED <<journalVars, g_journal_mutex, image, loop_i, req, ret, rd,
                   extVars, oob, histVars>>

\* read_openplc_to_buffer((uint8_t *)pUsrData, size, type, start_buffer)
rw_area_read ==
    /\ pc[S7] = "c_copy"
    /\ rd' = [rd EXCEPT !.dest = read_openplc_to_buffer(image, rd.dest, Len(rd.dest),
                                                        rd.type, rd.start_buffer)]
    /\ pc' = [pc EXCEPT ![S7] = "c_give"]
    /\ UNCHANGED <<journalVars, g_journal_mutex, image_mutex, image, loop_i, req,
                   ret, oob, histVars, extVars>>

\* g_runtime_args.mutex_give(g_runtime_args.buffer_mutex); return 0
rw_area_mutex_give ==
    /\ pc[S7] = "c_give"
    /\ image_mutex' = NONE
    /\ rd' = S7Return(rd, 0)
    /\ pc' = [pc EXCEPT ![S7] = "idle"]
    /\ UNCHANGED <<journalVars, g_journal_mutex, image, loop_i, req, ret, oob,
                   histVars, extVars>>

\* OperationWrite: a journal_write_* call has returned, its result is dropped
\* and the loop goes to its next element
rw_area_write_next ==
    /\ pc[S7] = "idle"
    /\ rd.op = "write"
    /\ (ret[S7] # NULL \/ req[S7] # NoReq)
    /\ rd' = [rd EXCEPT !.i = @ + 1]
    /\ ret' = [ret EXCEPT ![S7] = NULL]
    /\ req' = [req EXCEPT ![S7] = NoReq]
    /\ UNCHANGED <<journalVars, g_journal_mutex, image_mutex, image, pc, loop_i,
                   oob, histVars, extVars>>

\* the write loop is over: return 0
rw_area_write_done ==
    /\ pc[S7] = "idle"
    /\ rd.op = "write"
    /\ ret[S7] = NULL
    /\ req[S7] = NoReq
    /\ rd.i >= NumCalls(rd)
    /\ rd' = S7Return(rd, 0)
    /\ ret' = [ret EXCEPT ![S7] = 0]
    /\ UNCHANGED <<journalVars, g_journal_mutex, image_mutex, image, pc, loop_i,
                   req, oob, histVars, extVars>>

(***************************************************************************)
(* A plugin thread that holds the image mutex: mutex_take and mutex_give   *)
(* of plugin_runtime_args_t around its work, as the hooks of a tick run    *)
(* with the mutex held.  Between the two it may call the journal write     *)
(* callbacks like any writer.                                              *)
(***************************************************************************)
hook_mutex_take ==
    /\ pc[HOOK] = "idle"
    /\ Free(image_mutex)
    /\ image_mutex' = HOOK
    /\ UNCHANGED <<journalVars, g_journal_mutex, image, pc, loop_i, req, ret, rd,
                   oob, histVars, extVars>>

hook_mutex_give ==
    /\ pc[HOOK] = "idle"
    /\ image_mutex = HOOK
    /\ image_mutex' = NONE
    /\ UNCHANGED <<journalVars, g_journal_mutex, image, pc, loop_i, req, ret, rd,
                   oob, histVars, extVars>>

(***************************************************************************)
(* The S7 plugin's lifecycle: init, start_loop, stop_loop, cleanup          *)
(* (s7comm_plugin.cpp).  The plugin driver calls them one at a time, so     *)
(* each call is one step.  plugin holds the file-scope statics, the Snap7   *)
(* server objects made by Srv_Create (alive: created and not destroyed,     *)
(* listening: started and not stopped) and the heap blocks made by calloc   *)
(* (live: allocated and not freed).  A pointer or a handle is a positive    *)
(* number, 0 is NULL.  The outcomes of config parsing, calloc, Srv_Create   *)
(* and Srv_Start are inputs of the calls.                                   *)
(***************************************************************************)
MaxCalls == 5
MaxDataBlocks == 2

\* the configurations g_config can hold: zeroed static storage, the result
\* of s7comm_config_init_defaults (server enabled, no system area, no data
\* block), a parsed file that enables PE, MK and MaxDataBlocks data blocks,
\* a parsed file with server.enabled false
Config(c) ==
    [enabled |-> c \in {"defaults", "file"},
     areas |-> IF c = "file" THEN {"pe", "mk"} ELSE {},
     num_data_blocks |-> IF c = "file" THEN MaxDataBlocks ELSE 0]

PluginLoaded ==
    [g_initialized |-> FALSE, g_running |-> FALSE, g_config_loaded |-> FALSE,
     g_config |-> "zero", g_server |-> 0, pe |-> 0, pa |-> 0, mk |-> 0,
     db |-> [i \in 1..MaxDataBlocks |-> 0], g_num_db_runtime |-> 0,
     alive |-> {}, listening |-> {}, defaulted |-> {}, nsrv |-> 0,
     live |-> {}, nalloc |-> 0, double_free |-> FALSE,
     ret |-> 0, last |-> "load", log |-> "", bind_failures |-> 0,
     parse_failed |-> FALSE, reinit |-> FALSE, allocs |-> 0, calls |-> 0]

\* calloc that succeeded: a fresh block, numbered nalloc + 1
calloc(p) == [p EXCEPT !.nalloc = @ + 1, !.live = @ \cup {p.nalloc + 1}]

\* free(ptr) of a block that is not allocated is a double free
free(p, ptr) ==
    IF ptr \in p.live THEN [p EXCEPT !.live = @ \ {ptr}]
    ELSE [p EXCEPT !.double_free = TRUE]

\* allocate_area: the memset clears the old pointer; ok is calloc's outcome
allocate_area(p, area, enabled, ok) ==
    LET z == [p EXCEPT ![area] = 0]
    IN  IF ~enabled THEN [p |-> z, rc |-> 0]
        ELSE IF ok THEN [p |-> [calloc(z) EXCEPT ![area] = z.nalloc + 1], rc |-> 0]
        ELSE [p |-> z, rc |-> -1]

free_area(p, area) ==
    IF p[area] # 0 THEN [free(p, p[area]) EXCEPT ![area] = 0] ELSE p

\* the data-block loop of allocate_buffers from block i on; the k-th calloc
\* of the whole call fails when k = fail_at (n callocs were made so far)
RECURSIVE allocate_data_blocks(_, _, _, _, _)
allocate_data_blocks(p, i, ndb, n, fail_at) ==
    IF i > ndb THEN [p |-> p, rc |-> 0]
    ELSE LET slot == p.g_num_db_runtime + 1
         IN  IF n + 1 = fail_at
             THEN [p |-> [p EXCEPT !.db[slot] = 0], rc |-> -1]
             ELSE allocate_data_blocks(
                      [calloc(p) EXCEPT !.db[slot] = p.nalloc + 1,
                                        !.g_num_db_runtime = @ + 1],
                      i + 1, ndb, n + 1, fail_at)

\* allocate_buffers: PE, PA, MK, then the data blocks; stops at the first
\* calloc that fails
allocate_buffers(p, fail_at) ==
    LET areas == Config(p.g_config).areas
        on(a) == a \in areas
        p0 == [p EXCEPT !.g_num_db_runtime = 0]
        r1 == allocate_area(p0, "pe", on("pe"), fail_at # 1)
        n1 == IF on("pe") THEN 1 ELSE 0
        r2 == allocate_area(r1.p, "pa", on("pa"), fail_at # n1 + 1)
        n2 == n1 + (IF on("pa") THEN 1 ELSE 0)
        r3 == allocate_area(r2.p, "mk", on("mk"), fail_at # n2 + 1)
        n3 == n2 + (IF on("mk") THEN 1 ELSE 0)
    IN  IF r1.rc # 0 THEN r1
        ELSE IF r2.rc # 0 THEN r2
        ELSE IF r3.rc # 0 THEN r3
        ELSE allocate_data_blocks(r3.p, 1, Config(p.g_config).num_data_blocks, n3, fail_at)

RECURSIVE free_data_blocks(_, _)
free_data_blocks(p, i) ==
    IF i > p.g_num_db_runtime THEN p
    ELSE free_data_blocks(
             IF p.db[i] # 0 THEN [free(p, p.db[i]) EXCEPT !.db[i] = 0] ELSE p,
             i + 1)

free_buffers(p) ==
    [free_data_blocks(free_area(free_area(free_area(p, "pe"), "pa"), "mk"), 1)
        EXCEPT !.g_num_db_runtime = 0]

\* the inputs of one init call: args NULL or not, the config file (none,
\* bad: parsing or validation fails, file, disabled), which calloc fails
\* (0: none), whether Srv_Create returns an object
InitCalls ==
    [args : BOOLEAN, config : {"none", "bad", "file", "disabled"},
     fail_at : 0..(2 + MaxDataBlocks), create_ok : BOOLEAN]

\* a variant that leaves the server disabled when parsing fails
ConfigAfterFailureDisabled(c) ==
    CASE c = "file" -> "file"
      [] c = "none" -> "defaults"
      [] OTHER -> "file_disabled"

\* g_config after the parsing step of init: the file's content, or the
\* defaults when there is no file or when s7comm_config_parse fails
ConfigAfter(c) ==
    CASE c = "file" -> "file"
      [] c = "disabled" -> "file_disabled"
      [] OTHER -> "defaults"

\* a call is counted, and named for the claims that speak of "after X"
Called(p, name) == [p EXCEPT !.calls = @ + 1, !.last = name, !.log = ""]

init ==
    /\ plugin.calls < MaxCalls
    /\ \E c \in InitCalls :
        LET p0 == [Called(plugin, "init") EXCEPT !.parse_failed = FALSE]
            p1 == [p0 EXCEPT !.g_config = ConfigAfter(c.config),
                             !.g_config_loaded =
                                 IF c.config \in {"file", "disabled"} THEN TRUE ELSE @,
                             !.parse_failed = (c.config = "bad"),
                             !.log = IF c.config = "bad" THEN "config_failed_defaults"
                                     ELSE ""]
            p2 == [p1 EXCEPT !.reinit = @ \/ p1.allocs > 0, !.allocs = @ + 1]
            a == allocate_buffers(p2, c.fail_at)
            id == p2.nsrv + 1
            cfg == Config(ConfigAfter(c.config))
        IN  /\ c.fail_at <= Cardinality(cfg.areas) + cfg.num_data_blocks
            /\ (c.config \in {"none", "bad"}) => (c.fail_at = 0)
            /\ (~c.args) => (c.config = "none" /\ c.fail_at = 0 /\ c.create_ok)
            /\ (c.fail_at # 0 \/ ~cfg.enabled) => c.create_ok
            /\ plugin' =
                IF ~c.args THEN [p0 EXCEPT !.ret = -1]
                ELSE IF ~cfg.enabled
                THEN [p1 EXCEPT !.g_initialized = TRUE, !.ret = 0]
                ELSE IF a.rc # 0 THEN [free_buffers(a.p) EXCEPT !.ret = -1]
                ELSE IF ~c.create_ok
                THEN [free_buffers([a.p EXCEPT !.g_server = 0]) EXCEPT !.ret = -1]
                ELSE [a.p EXCEPT !.g_server = id, !.nsrv = id,
                                 !.alive = @ \cup {id},
                                 !.defaulted = IF a.p.g_config = "defaults"
                                               THEN @ \cup {id} ELSE @,
                                 !.g_initialized = TRUE, !.ret = 0]
    /\ UNCHANGED <<journalVars, g_journal_mutex, image_mutex, image, pc, loop_i,
                   req, ret, rd, oob, histVars, loop, hooks>>

\* a variant that marks the plugin running whatever Srv_Start returned
start_loop_always_running(p, started) ==
    IF started THEN [p EXCEPT !.g_running = TRUE, !.log = "started"]
    ELSE [p EXCEPT !.log = "bind_failed", !.bind_failures = @ + 1,
                   !.g_running = TRUE]

\* the end of start_loop: result != 0 is logged (with the hint for a port
\* below 1024) and leaves g_running alone, result 0 sets g_running
start_loop_started(p, started) ==
    IF started THEN [p EXCEPT !.g_running = TRUE, !.log = "started"]
    ELSE [p EXCEPT !.log = "bind_failed", !.bind_failures = @ + 1]

\* start_loop; ok is whether Srv_Start / Srv_StartTo can bind, and the call
\* fails on a NULL handle
start_loop ==
    /\ plugin.calls < MaxCalls
    /\ \E ok \in BOOLEAN :
        LET p0 == Called(plugin, "start_loop")
            early == ~p0.g_initialized \/ ~Config(p0.g_config).enabled \/ p0.g_running
            started == p0.g_server # 0 /\ ok
        IN  /\ (early \/ p0.g_server = 0) => ok
            /\ plugin' =
                IF early THEN p0
                ELSE start_loop_started(
                         IF started THEN [p0 EXCEPT !.listening = @ \cup {p0.g_server}]
                         ELSE p0,
                         started)
    /\ UNCHANGED <<journalVars, g_journal_mutex, image_mutex, image, pc, loop_i,
                   req, ret, rd, oob, histVars, loop, hooks>>

\* stop_loop on the statics p.  Srv_Stop on a handle that is not a live
\* server object is counted with the double frees.
stop_loop_body(p) ==
    IF ~p.g_running THEN p
    ELSE [p EXCEPT !.g_running = FALSE,
                   !.listening = @ \ {p.g_server},
                   !.double_free = @ \/ (p.g_server # 0 /\ p.g_server \notin p.alive)]

stop_loop ==
    /\ plugin.calls < MaxCalls
    /\ plugin' = stop_loop_body(Called(plugin, "stop_loop"))
    /\ UNCHANGED <<journalVars, g_journal_mutex, image_mutex, image, pc, loop_i,
                   req, ret, rd, oob, histVars, loop, hooks>>

\* cleanup; Srv_Destroy stops the server object and deletes it
cleanup ==
    /\ plugin.calls < MaxCalls
    /\ LET p0 == stop_loop_body(Called(plugin, "cleanup"))
           p1 == IF p0.g_server # 0
                 THEN [p0 EXCEPT !.g_server = 0,
                                 !.alive = @ \ {p0.g_server},
                                 !.listening = @ \ {p0.g_server},
                                 !.double_free = @ \/ p0.g_server \notin p0.alive]
                 ELSE p0
       IN  plugin' = [free_buffers(p1) EXCEPT !.g_initialized = FALSE,
                                              !.g_config_loaded = FALSE,
                                              !.allocs = 0]
    /\ UNCHANGED <<journalVars, g_journal_mutex, image_mutex, image, pc, loop_i,
                   req, ret, rd, oob, histVars, loop, hooks>>

(***************************************************************************)
(* The scan loop of main (plc_main.c) with the timing statistics of the     *)
(* scan cycle manager.  Times are nanoseconds of the monotonic clock; the   *)
(* statistics read it in microseconds.  One pass of the loop is three       *)
(* steps: the test of keep_running, the body (during which the clock        *)
(* advances by the body's duration), and sleep_until.  handle_sigint can    *)
(* run between any two steps.  loop.done lists what the loop has done since *)
(* it last read keep_running, and loop.passed the arguments it has given to *)
(* config_run__, loop.scans the scan times of the passes made.              *)
(***************************************************************************)
MaxTicks == 4

\* *ext_common_ticktime__, the tick period in nanoseconds
TickPeriodNs == 2000

\* how long one loop body may take: half a period, or three periods
BodyTimes == {TickPeriodNs \div 2, 3 * TickPeriodNs}

\* the initial scan_time_min; it stands for 2^63 - 1 and is larger than any
\* time of the model
INT64_MAX == 2147483647

\* the symbols symbols_init looks up, in its order
SymbolOrder ==
    <<"config_run__", "config_init__", "glueVars", "updateTime",
      "setBufferPointers", "common_ticktime__">>

\* main is about to enter its loop: the control program is loaded (resolved:
\* the ext_ pointers that are set; handle: the library's handle), its
\* entry points setBufferPointers, config_init__ and glueVars have been
\* invoked
LoopStart ==
    [lpc |-> "top", keep_running |-> TRUE, now |-> 0, timer_start |-> 0,
     cycle_start |-> 0, tick__ |-> 0, scan_count |-> 0, overruns |-> 0,
     expected_start_us |-> 0, last_start_us |-> 0,
     passed |-> <<>>, done |-> <<>>, body |-> 0, prev_start |-> 0,
     all_long |-> TRUE,
     scan_time_min |-> INT64_MAX, scan_time_max |-> 0, scan_time_avg |-> 0,
     scans |-> <<>>,
     load_ret |-> 0, handle |-> "open",
     resolved |-> {SymbolOrder[k] : k \in 1..6},
     invoked |-> {"setBufferPointers", "config_init__", "glueVars"}]

\* symbols_init: found says whether dlopen finds the library, miss is the
\* position in SymbolOrder of the first symbol the library lacks (0: none),
\* unmap whether dlclose removes the library from the address space (it does
\* when this was its last reference and the C library unloads on dlclose).
\* The pointers looked up before the failure stay set.
symbols_init(l, found, miss, unmap) ==
    IF ~found
    THEN [l EXCEPT !.load_ret = -1]
    ELSE IF miss > 0
    THEN [l EXCEPT !.load_ret = -1,
                   !.resolved = {SymbolOrder[k] : k \in 1..(miss - 1)},
                   !.handle = IF unmap THEN "unmapped" ELSE "closed"]
    ELSE [l EXCEPT !.load_ret = 0,
                   !.resolved = {SymbolOrder[k] : k \in 1..6},
                   !.handle = "open",
                   !.invoked = {"setBufferPointers"}]

\* main from symbols_init to the loop: the value symbols_init returns is
\* dropped, then ext_setBufferPointers, ext_config_init__ and ext_glueVars
\* are called.  A call through a pointer that is NULL or points into a
\* library that is no longer mapped ends the process; a call through a
\* pointer into a closed library that is still mapped runs the function.
main_start ==
    /\ loop.lpc = "start"
    /\ \E found \in BOOLEAN, miss \in 0..6, unmap \in BOOLEAN :
        LET l1 == symbols_init(loop, found, miss, unmap)
            callable(sym) == sym \in l1.resolved /\ l1.handle # "unmapped"
            calls == <<"setBufferPointers", "config_init__", "glueVars">>
            made == IF \E k \in 1..3 : ~callable(calls[k])
                    THEN (CHOOSE k \in 1..3 :
                              /\ ~callable(calls[k])
                              /\ \A j \in 1..(k - 1) : callable(calls[j])) - 1
                    ELSE 3
        IN
        /\ loop' = [l1 EXCEPT !.invoked = @ \cup {calls[k] : k \in 1..made},
                              !.lpc = IF made = 3 THEN "top" ELSE "crashed"]
        /\ image' = IF made = 3
                    THEN [c \in Cells \cup {OUTSIDE} |->
                              IF c \in UnboundCells THEN NULL ELSE 0]
                    ELSE image
    /\ UNCHANGED <<journalVars, g_journal_mutex, image_mutex, pc, loop_i,
                   req, ret, rd, oob, histVars, plugin, hooks>>

\* scan_cycle_time_start at clock l.now
scan_cycle_time_start(l) ==
    LET now_us == l.now \div 1000
    IN  IF l.scan_count = 0
        THEN [l EXCEPT !.expected_start_us = now_us + TickPeriodNs \div 1000,
                       !.last_start_us = now_us,
                       !.scan_count = @ + 1]
        ELSE [l EXCEPT !.last_start_us = now_us,
                       !.expected_start_us = @ + TickPeriodNs \div 1000,
                       !.scan_count = @ + 1]

\* a variant whose overrun test is reversed
scan_cycle_time_end_reversed(l) ==
    IF l.now \div 1000 < l.expected_start_us THEN [l EXCEPT !.overruns = @ + 1] ELSE l

\* a variant that adds the scan time to scan_time_avg
scan_cycle_time_end_sum(l) ==
    LET scan_time_us == (l.now \div 1000) - l.last_start_us
    IN  [l EXCEPT
            !.scan_time_min = IF scan_time_us < @ THEN scan_time_us ELSE @,
            !.scan_time_max = IF scan_time_us > @ THEN scan_time_us ELSE @,
            !.scan_time_avg = @ + scan_time_us,
            !.overruns = IF l.now \div 1000 > l.expected_start_us THEN @ + 1 ELSE @]

\* scan_cycle_time_end at clock l.now: the rolling minimum, maximum and mean
\* of the scan time, then the overrun test.  The quotient of the int64_t
\* division is truncated towards zero.
scan_cycle_time_end(l) ==
    LET scan_time_us == (l.now \div 1000) - l.last_start_us
        diff == scan_time_us - l.scan_time_avg
        quot == IF diff >= 0 THEN diff \div l.scan_count
                ELSE -((-diff) \div l.scan_count)
    IN  [l EXCEPT
            !.scan_time_min = IF scan_time_us < @ THEN scan_time_us ELSE @,
            !.scan_time_max = IF scan_time_us > @ THEN scan_time_us ELSE @,
            !.scan_time_avg = @ + quot,
            !.overruns = IF l.now \div 1000 > l.expected_start_us THEN @ + 1 ELSE @]

\* a variant that sleeps until the start of this tick plus the period
sleep_until_from_tick_start(l) ==
    LET ts == l.cycle_start + TickPeriodNs
    IN  [l EXCEPT !.timer_start = ts, !.now = IF ts > l.now THEN ts ELSE l.now]

\* sleep_until(&timer_start, period): the period is added to timer_start and
\* clock_nanosleep(TIMER_ABSTIME) returns at that time, or at once when the
\* clock has passed it
sleep_until_ts(l) ==
    LET ts == l.timer_start + TickPeriodNs
    IN  [l EXCEPT !.timer_start = ts, !.now = IF ts > l.now THEN ts ELSE l.now]

handle_sigint ==
    /\ loop.keep_running
    /\ loop.lpc \notin {"exited", "crashed"}
    /\ loop' = [loop EXCEPT !.keep_running = FALSE]
    /\ UNCHANGED <<journalVars, g_journal_mutex, image_mutex, image, pc, loop_i,
                   req, ret, rd, oob, histVars, plugin, hooks>>

\* a variant of the loop test that does not look at keep_running
main_loop_poll_ignored ==
    /\ loop.lpc = "top"
    /\ loop.tick__ < MaxTicks
    /\ loop' = [loop EXCEPT !.lpc = "body", !.done = <<>>]
    /\ UNCHANGED <<journalVars, g_journal_mutex, image_mutex, image, pc, loop_i,
                   req, ret, rd, oob, histVars, plugin, hooks>>

\* while (keep_running)
main_loop_poll ==
    /\ loop.lpc = "top"
    /\ loop.tick__ < MaxTicks \/ ~loop.keep_running
    /\ loop' = [loop EXCEPT !.lpc = IF loop.keep_running THEN "body" ELSE "exited",
                            !.done = <<>>]
    /\ UNCHANGED <<journalVars, g_journal_mutex, image_mutex, image, pc, loop_i,
                   req, ret, rd, oob, histVars, plugin, hooks>>

\* the body of the loop: the cycle's start is timed, config_run__(tick__++)
\* and updateTime run, the cycle's end is timed.  d is the time it takes.
\* The tick period is read through ext_common_ticktime__: when that pointer
\* is NULL the read ends the process.
main_loop_body ==
    /\ loop.lpc = "body"
    /\ \E d \in BodyTimes :
        LET l1 == scan_cycle_time_start(loop)
            l2 == [l1 EXCEPT !.cycle_start = l1.now,
                             !.prev_start = l1.cycle_start,
                             !.passed = Append(@, l1.tick__),
                             !.tick__ = @ + 1,
                             !.now = @ + d,
                             !.body = d,
                             !.all_long = @ /\ d > TickPeriodNs,
                             !.scans = Append(@, ((l1.now + d) \div 1000)
                                                  - l1.last_start_us),
                             !.invoked = @ \cup {"config_run__", "updateTime"}]
        IN  loop' = IF "common_ticktime__" \in loop.resolved
                    THEN [scan_cycle_time_end(l2) EXCEPT !.lpc = "sleep",
                                                        !.done = Append(@, "work")]
                    ELSE [loop EXCEPT !.lpc = "crashed"]
    /\ UNCHANGED <<journalVars, g_journal_mutex, image_mutex, image, pc, loop_i,
                   req, ret, rd, oob, histVars, plugin, hooks>>

main_loop_sleep ==
    /\ loop.lpc = "sleep"
    /\ loop' = [sleep_until_ts(loop) EXCEPT !.lpc = "top", !.done = Append(@, "sleep")]
    /\ UNCHANGED <<journalVars, g_journal_mutex, image_mutex, image, pc, loop_i,
                   req, ret, rd, oob, histVars, plugin, hooks>>

(***************************************************************************)
(* Initial state: journal_init has returned 0, the control program has     *)
(* published its bindings, the plugins are started, no call is in progress.*)
(***************************************************************************)
Init ==
    /\ g_entries = <<>>
    /\ g_count = 0
    /\ g_next_sequence = 0
    /\ g_initialized = TRUE
    /\ g_journal_mutex = NONE
    /\ image_mutex = NONE
    /\ image = [c \in Cells \cup {OUTSIDE} |-> IF c \in UnboundCells THEN NULL ELSE 0]
    /\ pc = [t \in Threads \cup {MAIN, EDGE, S7, HOOK} |-> IF t = SCAN THEN "t_lock" ELSE "idle"]
    /\ loop_i = [t \in Threads \cup {EDGE, S7, HOOK} |-> 0]
    /\ req = [w \in Writers \cup {EDGE, S7, HOOK} |-> NoReq]
    /\ ret = [w \in Writers \cup {MAIN, EDGE, S7, HOOK} |-> 0]
    /\ rd = NoRead
    /\ oob = FALSE
    /\ enqSince = <<>>
    /\ appliedNow = <<>>
    /\ cleared = <<>>
    /\ flushedSinceTick = FALSE
    /\ lastFlushed = NoReq
    /\ preApply = {}
    /\ applyDone = FALSE
    /\ nStored = 0
    /\ nBody = 0
    /\ rsnap = <<>>
    /\ plugin = PluginLoaded
    /\ loop = LoopStart
    /\ hooks = NoHookCalls

ScanStep ==
    \/ tick_lock_image
    \/ journal_apply_lock
    \/ journal_apply_entry
    \/ journal_apply_clear
    \/ journal_apply_unlock
    \/ plugin_driver_cycle_start
    \/ config_run_first
    \/ config_run_second
    \/ update_time
    \/ plugin_driver_cycle_end
    \/ tick_unlock_image
    \/ sleep_until

WriterStep(w) ==
    \/ journal_write_bool(w)
    \/ journal_write_int(w)
    \/ add_entry_locked(w)
    \/ emergency_flush_unlock_journal(w)
    \/ emergency_flush_lock_image(w)
    \/ emergency_flush_lock_journal(w)
    \/ emergency_flush_apply(w)
    \/ emergency_flush_clear(w)
    \/ emergency_flush_unlock_image(w)
    \/ add_entry_after_flush(w)

ReaderStep ==
    \/ rw_area_read_begin
    \/ mutex_take
    \/ read_openplc_int_to_buffer
    \/ read_openplc_done
    \/ mutex_give

(***************************************************************************)
(* The mutex a thread is blocked on: the owner of the mutex its next step  *)
(* locks, NONE when its next step locks no mutex or the mutex is free.     *)
(***************************************************************************)
WaitsFor(t) ==
    CASE pc[t] \in {"t_lock", "f_lock_image", "r_take"} -> image_mutex
      [] pc[t] \in {"w_lock", "f_lock_journal"} -> g_journal_mutex
      [] pc[t] = "a_lock" /\ g_initialized -> g_journal_mutex
      [] OTHER -> NONE

\* the thread reached from t by following WaitsFor n times
RECURSIVE WaitChain(_, _)
WaitChain(t, n) ==
    IF n = 0 \/ t = NONE THEN t ELSE WaitChain(WaitsFor(t), n - 1)

\* the scan thread and the plugin threads writing through the journal
Next ==
    \/ ScanStep
    \/ \E w \in Writers : WriterStep(w)

Spec == Init /\ [][Next]_vars

\* The scan thread and two plugin threads that call journal_write_int, under
\* fair scheduling: a thread whose next step is possible again and again (the
\* lock it waits for is released again and again) takes it
SpecFair ==
    /\ Init
    /\ [][ScanStep
          \/ \E w \in Writers :
                \/ journal_write_int(w)
                \/ add_entry_locked(w)
                \/ emergency_flush_unlock_journal(w)
                \/ emergency_flush_lock_image(w)
                \/ emergency_flush_lock_journal(w)
                \/ emergency_flush_apply(w)
                \/ emergency_flush_clear(w)
                \/ emergency_flush_unlock_image(w)
                \/ add_entry_after_flush(w)]_vars
    /\ SF_vars(ScanStep)
    /\ \A w \in Writers :
          SF_vars(\/ journal_write_int(w)
                  \/ add_entry_locked(w)
                  \/ emergency_flush_unlock_journal(w)
                  \/ emergency_flush_lock_image(w)
                  \/ emergency_flush_lock_journal(w)
                  \/ emergency_flush_apply(w)
                  \/ emergency_flush_clear(w)
                  \/ emergency_flush_unlock_image(w)
                  \/ add_entry_after_flush(w))

\* the plugin threads alone: no tick intervenes
NextNoTick == \E w \in Writers : WriterStep(w)

SpecNoTick == Init /\ [][NextNoTick]_vars

\* the scan thread, one writing plugin thread and the S7 client reading
NextRead ==
    \/ ScanStep
    \/ WriterStep("w1")
    \/ ReaderStep

SpecRead == Init /\ [][NextRead]_vars

\* entries of every family as the journal_write_* functions store them: first
\* and last index of the table, bits 0 and 7, the value 1 and the largest
\* value of the family that the model's integers hold
EntrySamples ==
    {[sequence |-> 0, buffer_type |-> t, bit_index |-> b, index |-> i, value |-> 1] :
        t \in BoolTypes, b \in {0, 7}, i \in {0, BUFFER_SIZE - 1}}
    \cup {[sequence |-> 0, buffer_type |-> t, bit_index |-> NO_BIT, index |-> i,
           value |-> v] :
        t \in ByteTypes, i \in {0, BUFFER_SIZE - 1}, v \in {1, 255}}
    \cup {[sequence |-> 0, buffer_type |-> t, bit_index |-> NO_BIT, index |-> i,
           value |-> v] :
        t \in IntTypes, i \in {0, BUFFER_SIZE - 1}, v \in {1, 65535}}
    \cup {[sequence |-> 0, buffer_type |-> t, bit_index |-> NO_BIT, index |-> i,
           value |-> v] :
        t \in DintTypes \cup LintTypes, i \in {0, BUFFER_SIZE - 1}, v \in {1, 2147483647}}

\* one write of any family has been stored since journal_init
InitApply ==
    /\ \E e \in EntrySamples :
        /\ g_entries = <<e>>
        /\ enqSince = <<e>>
    /\ g_count = 1
    /\ g_next_sequence = 1
    /\ g_initialized = TRUE
    /\ g_journal_mutex = NONE
    /\ image_mutex = NONE
    /\ image = [c \in Cells \cup {OUTSIDE} |-> IF c \in UnboundCells THEN NULL ELSE 0]
    /\ pc = [t \in Threads \cup {MAIN, EDGE, S7, HOOK} |-> IF t = SCAN THEN "t_lock" ELSE "idle"]
    /\ loop_i = [t \in Threads \cup {EDGE, S7, HOOK} |-> 0]
    /\ req = [w \in Writers \cup {EDGE, S7, HOOK} |-> NoReq]
    /\ ret = [w \in Writers \cup {MAIN, EDGE, S7, HOOK} |-> 0]
    /\ rd = NoRead
    /\ oob = FALSE
    /\ appliedNow = <<>>
    /\ cleared = <<>>
    /\ flushedSinceTick = FALSE
    /\ lastFlushed = NoReq
    /\ preApply = {}
    /\ applyDone = FALSE
    /\ nStored = 1
    /\ nBody = 0
    /\ rsnap = <<>>
    /\ plugin = PluginLoaded
    /\ loop = LoopStart
    /\ hooks = NoHookCalls

\* the scan thread alone: the tick applies the journal, and no write follows
SpecApply == InitApply /\ [][ScanStep]_vars

\* the image tables when the S7 server starts: the field inputs hold values
S7Image ==
    [c \in Cells \cup {OUTSIDE} |->
        CASE c \in UnboundCells -> NULL
          [] c = Cell(JOURNAL_INT_INPUT, 0, 0) -> 4660
          [] c = Cell(JOURNAL_INT_INPUT, 1, 0) -> 22136
          [] c = Cell(JOURNAL_DINT_INPUT, 0, 0) -> 16909060
          [] c = Cell(JOURNAL_LINT_INPUT, 0, 0) -> 16909060
          [] c = Cell(JOURNAL_BOOL_INPUT, 0, 1) -> 1
          [] c = Cell(JOURNAL_BYTE_OUTPUT, 0, 0) -> 85
          [] OTHER -> 0]

InitS7 ==
    /\ g_entries = <<>>
    /\ g_count = 0
    /\ g_next_sequence = 0
    /\ g_initialized = TRUE
    /\ g_journal_mutex = NONE
    /\ image_mutex = NONE
    /\ image = S7Image
    /\ pc = [t \in Threads \cup {MAIN, EDGE, S7, HOOK} |-> IF t = SCAN THEN "t_lock" ELSE "idle"]
    /\ loop_i = [t \in Threads \cup {EDGE, S7, HOOK} |-> 0]
    /\ req = [w \in Writers \cup {EDGE, S7, HOOK} |-> NoReq]
    /\ ret = [w \in Writers \cup {MAIN, EDGE, S7, HOOK} |-> 0]
    /\ rd = S7Idle
    /\ oob = FALSE
    /\ enqSince = <<>>
    /\ appliedNow = <<>>
    /\ cleared = <<>>
    /\ flushedSinceTick = FALSE
    /\ lastFlushed = NoReq
    /\ preApply = {}
    /\ applyDone = FALSE
    /\ nStored = 0
    /\ nBody = 0
    /\ rsnap = <<>>
    /\ plugin = PluginLoaded
    /\ loop = LoopStart
    /\ hooks = NoHookCalls

S7Step ==
    \/ s7comm_rw_area_callback
    \/ rw_area_mutex_take
    \/ rw_area_read
    \/ rw_area_mutex_give
    \/ rw_area_write_next
    \/ rw_area_write_done
    \/ journal_write_dint(S7)
    \/ journal_write_lint(S7)
    \/ WriterStep(S7)

\* the scan thread and the S7 server's thread serving one client
NextS7 ==
    \/ ScanStep
    \/ S7Step

SpecS7 == InitS7 /\ [][NextS7]_vars

\* the state before the first call of journal_init: the statics of
\* journal_buffer.c as initialised at load time
InitLife ==
    /\ g_entries = <<>>
    /\ g_count = 0
    /\ g_next_sequence = 0
    /\ g_initialized = FALSE
    /\ g_journal_mutex = NONE
    /\ image_mutex = NONE
    /\ image = [c \in Cells \cup {OUTSIDE} |-> IF c \in UnboundCells THEN NULL ELSE 0]
    /\ pc = [t \in Threads \cup {MAIN, EDGE, S7, HOOK} |-> IF t = SCAN THEN "t_lock" ELSE "idle"]
    /\ loop_i = [t \in Threads \cup {EDGE, S7, HOOK} |-> 0]
    /\ req = [w \in Writers \cup {EDGE, S7, HOOK} |-> NoReq]
    /\ ret = [w \in Writers \cup {MAIN, EDGE, S7, HOOK} |-> 0]
    /\ rd = NoRead
    /\ oob = FALSE
    /\ enqSince = <<>>
    /\ appliedNow = <<>>
    /\ cleared = <<>>
    /\ flushedSinceTick = FALSE
    /\ lastFlushed = NoReq
    /\ preApply = {}
    /\ applyDone = FALSE
    /\ nStored = 0
    /\ nBody = 0
    /\ rsnap = <<>>
    /\ plugin = PluginLoaded
    /\ loop = LoopStart
    /\ hooks = NoHookCalls

\* the main thread calling journal_init, at any time and any number of times,
\* with the scan thread and the plugin thread EDGE
NextLife ==
    \/ journal_init_check
    \/ journal_init_locked
    \/ ScanStep
    \/ WriterStep(EDGE)

SpecLife == InitLife /\ [][NextLife]_vars

\* journal_cleanup and journal_init called at any time by the main thread,
\* with the scan thread and one writer
SpecCleanup ==
    Init /\ [][journal_cleanup \/ journal_init_check \/ journal_init_locked
               \/ ScanStep \/ WriterStep("w1")
               \/ emergency_flush_null_mutex("w1") \/ journal_apply_checked]_vars

\* the lifecycle calls of the S7 plugin, in any order
SpecPlugin == Init /\ [][init \/ start_loop \/ stop_loop \/ cleanup]_vars

\* a plugin thread that writes with and without the image mutex, beside
\* one ordinary writer
SpecHook ==
    Init /\ [][hook_mutex_take \/ hook_mutex_give \/ WriterStep(HOOK)
               \/ WriterStep("w1")]_vars

\* an ordinary writer and the plugin thread EDGE, whose calls carry type
\* codes and bit indices the functions must reject; no tick runs, and what is
\* stored is applied by the emergency flush
SpecArgs == Init /\ [][WriterStep("w1") \/ WriterStep(EDGE)]_vars

\* the process is started: no library is loaded, no pointer of the image
\* tables is bound, the journal is not initialised
InitStart ==
    /\ g_entries = <<>>
    /\ g_count = 0
    /\ g_next_sequence = 0
    /\ g_initialized = FALSE
    /\ g_journal_mutex = NONE
    /\ image_mutex = NONE
    /\ image = [c \in Cells \cup {OUTSIDE} |-> NULL]
    /\ pc = [t \in Threads \cup {MAIN, EDGE, S7, HOOK} |-> "idle"]
    /\ loop_i = [t \in Threads \cup {EDGE, S7, HOOK} |-> 0]
    /\ req = [w \in Writers \cup {EDGE, S7, HOOK} |-> NoReq]
    /\ ret = [w \in Writers \cup {MAIN, EDGE, S7, HOOK} |-> 0]
    /\ rd = NoRead
    /\ oob = FALSE
    /\ enqSince = <<>>
    /\ appliedNow = <<>>
    /\ cleared = <<>>
    /\ flushedSinceTick = FALSE
    /\ lastFlushed = NoReq
    /\ preApply = {}
    /\ applyDone = FALSE
    /\ nStored = 0
    /\ nBody = 0
    /\ rsnap = <<>>
    /\ plugin = PluginLoaded
    /\ loop = [LoopStart EXCEPT !.lpc = "start", !.load_ret = 0,
                                !.handle = "none", !.resolved = {},
                                !.invoked = {}]
    /\ hooks = NoHookCalls

\* main from its start: the control program is loaded, then the loop runs
SpecStart ==
    InitStart /\ [][main_start \/ handle_sigint \/ main_loop_poll
                    \/ main_loop_body \/ main_loop_sleep]_vars

\* the scan loop and the signal handler; the loop's thread keeps running
SpecLoop ==
    /\ Init
    /\ [][handle_sigint \/ main_loop_poll \/ main_loop_body \/ main_loop_sleep]_vars
    /\ WF_vars(main_loop_poll \/ main_loop_body \/ main_loop_sleep)


(***************************************************************************)
(* C1.  Every journal write that was stored (its call returns 0) is passed *)
(* to apply_entry exactly once, by the tick's apply or by an emergency     *)
(* flush: the stored writes stay pending in the journal until an apply     *)
(* loop runs, each loop applies them one by one from the oldest, and the   *)
(* journal is cleared only once all of them were applied; nothing is       *)
(* stored past the end of the array.                                       *)
(***************************************************************************)
C1_ExactlyOnce ==
    /\ ~oob
    /\ g_count <= Len(g_entries)
    /\ enqSince = SubSeq(g_entries, 1, g_count)
    /\ \A t \in Threads :
        /\ pc[t] \in {"a_loop", "f_loop"} =>
              /\ loop_i[t] <= Len(enqSince)
              /\ appliedNow = SubSeq(enqSince, 1, loop_i[t])
        /\ pc[t] \in {"a_unlock", "f_unlock_image"} => appliedNow = cleared

\* two writers found the journal full; one has applied the pending entries in
\* its emergency flush while the other waits for the image mutex
C1_Witness ==
    \E w \in Writers, v \in Writers :
        /\ w # v
        /\ pc[w] = "f_unlock_image"
        /\ Len(appliedNow) = JOURNAL_MAX_ENTRIES
        /\ pc[v] = "f_lock_image"

(***************************************************************************)
(* C2.  The system never deadlocks: no thread waits, directly or through   *)
(* a chain of blocked threads, for a mutex whose release depends on the    *)
(* thread itself, so in every reachable state some thread that is not      *)
(* blocked on the image mutex or the journal mutex can run.                *)
(***************************************************************************)
C2_NoDeadlock ==
    /\ \A t \in Threads : WaitChain(t, Cardinality(Threads)) = NONE
    /\ \E t \in Threads \ {READER} : WaitsFor(t) = NONE

\* the scan thread waits for the image mutex held by a flushing writer, which
\* waits for the journal mutex held by the other writer finishing its flush
C2_Witness ==
    \E w \in Writers, v \in Writers :
        /\ pc[SCAN] = "t_lock"
        /\ pc[w] = "f_lock_journal"
        /\ image_mutex = w
        /\ pc[v] = "f_add"
        /\ g_journal_mutex = v

(***************************************************************************)
(* C3.  Lock order: no thread waits for or takes the image mutex while it  *)
(* holds the journal mutex; a thread that holds both took the image mutex  *)
(* first; of the journal's code only the emergency flush takes the image   *)
(* mutex itself.                                                           *)
(***************************************************************************)
C3_LockOrder ==
    /\ [](\A t \in Threads :
            /\ pc[t] \in {"t_lock", "f_lock_image", "r_take"} => g_journal_mutex # t
            /\ (image_mutex = t /\ t \in Writers) =>
                  pc[t] \in {"f_lock_journal", "f_loop", "f_unlock_image"})
    /\ [][\A t \in Threads :
            /\ (image_mutex' = t /\ image_mutex # t) =>
                  (g_journal_mutex # t /\ g_journal_mutex' # t)
            /\ (g_journal_mutex' = t /\ image_mutex' = t /\ g_journal_mutex # t) =>
                  image_mutex = t]_vars

\* an emergency flush holds both mutexes, image mutex taken first
C3_Witness ==
    \E w \in Writers :
        /\ pc[w] = "f_loop"
        /\ image_mutex = w
        /\ g_journal_mutex = w

(***************************************************************************)
(* C4.  Last writer wins: when an apply loop (the tick's or an emergency   *)
(* flush's) has run over the pending entries, every bound cell that some   *)
(* of them target holds the value of the entry stored last for it,         *)
(* whichever threads stored the entries.                                   *)
(***************************************************************************)
C4_LastWriterWins ==
    \A t \in Threads :
        pc[t] \in {"a_unlock", "f_unlock_image"} =>
            \A i \in 1..Len(cleared) :
                LET c == TargetOf(cleared[i]) IN
                    (/\ c \in Cells \ UnboundCells
                     /\ \A j \in (i + 1)..Len(cleared) : TargetOf(cleared[j]) # c)
                        => image[c] = cleared[i].value

\* the tick applied two writes of different values to the same cell
C4_Witness ==
    /\ pc[SCAN] = "a_unlock"
    /\ Len(cleared) = 2
    /\ TargetOf(cleared[1]) = TargetOf(cleared[2])
    /\ cleared[1].value = 1
    /\ cleared[2].value = 0
    /\ image[TargetOf(cleared[2])] = 0

C6_AppliedSinceLastTick ==
    pc[SCAN] = "a_unlock" =>
        /\ appliedNow = cleared
        /\ \A i \in 1..Len(appliedNow) : appliedNow[i].sequence = i - 1
        /\ nBody = 0
        /\ ~flushedSinceTick

(***************************************************************************)
(* C6, amended.  The writes applied at a tick are exactly the writes       *)
(* stored since the journal was last cleared, by the previous tick's apply *)
(* or by a later emergency flush, and they are applied in sequence order.  *)
(***************************************************************************)
C6_AppliedSinceLastClear ==
    pc[SCAN] = "a_unlock" =>
        /\ appliedNow = cleared
        /\ \A i \in 1..Len(appliedNow) : appliedNow[i].sequence = i - 1

\* a tick applied the write that was stored after an emergency flush
C6_Witness ==
    /\ pc[SCAN] = "a_unlock"
    /\ flushedSinceTick
    /\ Len(appliedNow) >= 1

TickOrder ==
    {<<"t_lock", "a_lock">>, <<"a_lock", "a_loop">>, <<"a_loop", "a_unlock">>,
     <<"a_unlock", "t_cycle_start">>, <<"a_lock", "t_cycle_start">>,
     <<"t_cycle_start", "t_run1">>, <<"t_run1", "t_run2">>,
     <<"t_run2", "t_update_time">>, <<"t_update_time", "t_cycle_end">>,
     <<"t_cycle_end", "t_unlock">>, <<"t_unlock", "t_sleep">>,
     <<"t_sleep", "t_lock">>}

Accessing(t) ==
    CASE t = SCAN -> pc[t] \in {"a_loop", "t_cycle_start", "t_run1", "t_run2",
                                "t_update_time", "t_cycle_end"}
      [] t = READER -> pc[t] = "r_copy"
      [] OTHER -> pc[t] = "f_loop"

C11_EmptyAfterApplyAndInit ==
    /\ [][(pc[SCAN] \in {"a_lock", "a_unlock"} /\ pc'[SCAN] = "t_cycle_start") =>
            (journal_pending_count' = 0 /\ journal_get_sequence' = 0)]_vars
    /\ [][(pc[MAIN] = "i_lock" /\ pc'[MAIN] = "idle") =>
            /\ ret'[MAIN] = 0
            /\ journal_pending_count' = 0
            /\ journal_get_sequence' = 0]_vars

\* journal_init has returned 0 after it reset a journal that a writer had found
\* full: the writer still waits to flush it
C11_Witness ==
    /\ pc[MAIN] = "idle"
    /\ ret[MAIN] = 0
    /\ journal_pending_count = 0
    /\ nStored = 0
    /\ pc[EDGE] = "f_lock_image"

\* the writes of one tick interval that the history keeps, in insertion order:
\* the last one applied by an emergency flush, then those the tick applied
IntervalWrites ==
    IF lastFlushed = NoReq THEN cleared ELSE <<lastFlushed>> \o cleared

(***************************************************************************)
(* C12.  As stated: for two successful writes w1, w2 of different values   *)
(* to the same bound cell within one tick interval, one of them the last   *)
(* write to the cell, the cell holds w2's value after the tick's apply if  *)
(* and only if w1.sequence < w2.sequence.                                  *)
(***************************************************************************)
C12_SequenceDecides ==
    pc[SCAN] = "a_unlock" =>
        \A i, j \in 1..Len(IntervalWrites) :
            LET w1 == IntervalWrites[i]
                w2 == IntervalWrites[j]
                c == TargetOf(w2)
            IN  (/\ i # j
                 /\ TargetOf(w1) = c
                 /\ c \in Cells \ UnboundCells
                 /\ w1.value # w2.value
                 /\ \A k \in 1..Len(IntervalWrites) :
                        (k > i /\ k > j) => TargetOf(IntervalWrites[k]) # c)
                => ((image[c] = w2.value) <=> (w1.sequence < w2.sequence))

(***************************************************************************)
(* C12, amended.  Among the writes to one bound cell that are pending      *)
(* together when an apply (the tick's or an emergency flush's) runs, the   *)
(* cell holds afterwards the value of the write with the highest sequence  *)
(* number: for two such writes of different values, one of them the last,  *)
(* the cell holds w2's value if and only if w1.sequence < w2.sequence.     *)
(***************************************************************************)
C12_SequenceDecidesWithinApply ==
    \A t \in Threads :
        pc[t] \in {"a_unlock", "f_unlock_image"} =>
            \A i, j \in 1..Len(cleared) :
                LET w1 == cleared[i]
                    w2 == cleared[j]
                    c == TargetOf(w2)
                IN  (/\ i # j
                     /\ TargetOf(w1) = c
                     /\ c \in Cells \ UnboundCells
                     /\ w1.value # w2.value
                     /\ \A k \in 1..Len(cleared) :
                            (k > i /\ k > j) => TargetOf(cleared[k]) # c)
                    => ((image[c] = w2.value) <=> (w1.sequence < w2.sequence))

\* an emergency flush applied a write of 1 and then a write of 0 to the same bit
C12_Witness ==
    \E w \in Writers :
        /\ pc[w] = "f_unlock_image"
        /\ Len(cleared) >= 2
        /\ TargetOf(cleared[1]) = TargetOf(cleared[2])
        /\ cleared[1].value = 1
        /\ cleared[2].value = 0
        /\ cleared[1].sequence < cleared[2].sequence
        /\ image[TargetOf(cleared[2])] = 0

\* the arguments of a journal write are outside what its function accepts
BadArgs(r) ==
    \/ r.fn = "bool" /\ (r.buffer_type \notin BoolTypes \/ r.bit_index > 7)
    \/ r.fn = "int" /\ r.buffer_type \notin IntTypes

(***************************************************************************)
(* C13.  A journal write called with a type code outside its family, with  *)
(* bit > 7 for journal_write_bool, or while the journal is not             *)
(* initialised, returns nonzero and leaves g_count, g_next_sequence and    *)
(* the stored entries as they were.                                        *)
(***************************************************************************)
C13_RejectedWrites ==
    [][\A w \in Writers \cup {EDGE, S7} :
        (/\ pc[w] = "idle"
         /\ (pc'[w] # "idle" \/ req'[w] # req[w] \/ ret'[w] # ret[w])
         /\ (~g_initialized \/ BadArgs(req'[w])))
        => /\ pc'[w] = "idle"
           /\ ret'[w] # 0
           /\ journal_pending_count' = journal_pending_count
           /\ journal_get_sequence' = journal_get_sequence
           /\ g_entries' = g_entries]_vars

\* journal_write_int with type 4 has returned -1 and an entry is still pending
C13_Witness ==
    \E w \in {EDGE} :
        /\ pc[w] = "idle"
        /\ ret[w] = -1
        /\ req[w] # NoReq
        /\ req[w].fn = "int"
        /\ req[w].buffer_type = JOURNAL_BYTE_OUTPUT
        /\ g_initialized
        /\ journal_pending_count = 1

(***************************************************************************)
(* C14.  A write whose index is BUFFER_SIZE or more is accepted: the call  *)
(* returns 0 and the pending count grows by one; when the entry is applied *)
(* no cell of the image tables changes and nothing outside the tables is   *)
(* written, and the apply removes the entry from the journal.              *)
(***************************************************************************)
C14_IndexPastEndDropped ==
    /\ [](image[OUTSIDE] = 0)
    /\ [](\A t \in {SCAN, EDGE} :
            pc[t] \in {"a_unlock", "f_unlock_image"} => journal_pending_count = 0)
    /\ [][(/\ pc[EDGE] \in {"w_lock", "f_add"}
           /\ pc'[EDGE] = "idle"
           /\ req[EDGE].index >= BUFFER_SIZE)
          => /\ ret'[EDGE] = 0
             /\ journal_pending_count' = journal_pending_count + 1
             /\ g_entries'[g_count'].index = req[EDGE].index]_vars
    /\ [][\A t \in {SCAN, EDGE} :
            (/\ pc[t] \in {"a_loop", "f_loop"}
             /\ loop_i'[t] = loop_i[t] + 1
             /\ g_entries[loop_i[t] + 1].index >= BUFFER_SIZE)
            => image' = image]_vars

\* the tick has applied and cleared a journal that held a write to index
\* BUFFER_SIZE
C14_Witness ==
    /\ pc[SCAN] = "a_unlock"
    /\ Len(cleared) >= 1
    /\ cleared[1].index = BUFFER_SIZE
    /\ appliedNow = cleared
    /\ journal_pending_count = 0

\* the width in bits of the cells of a family
WidthOf(t) ==
    CASE t \in BoolTypes -> 1
      [] t \in ByteTypes -> 8
      [] t \in IntTypes -> 16
      [] t \in DintTypes -> 32
      [] t \in LintTypes -> 64

(***************************************************************************)
(* C15.  Applying an entry of type t and index i < BUFFER_SIZE (and bit b  *)
(* for the bool families) whose slot is bound overwrites that one cell     *)
(* with the entry's value masked to the family's width and changes no      *)
(* other cell; if the slot is unbound no cell changes; in both cases the   *)
(* entry is consumed: the apply goes on to the next entry and clears the   *)
(* journal at the end.                                                     *)
(***************************************************************************)
C15_ApplyFrame ==
    /\ [][(pc[SCAN] = "a_loop" /\ loop_i'[SCAN] = loop_i[SCAN] + 1) =>
            LET e == g_entries[loop_i[SCAN] + 1]
                c == TargetOf(e)
            IN  /\ (e.index < BUFFER_SIZE /\ image[c] # NULL) =>
                      /\ image'[c] = MaskTo(e.value, WidthOf(e.buffer_type))
                      /\ \A d \in (DOMAIN image) \ {c} : image'[d] = image[d]
                /\ (e.index < BUFFER_SIZE /\ image[c] = NULL) => image' = image
                /\ appliedNow' = Append(appliedNow, e)]_vars
    /\ [](pc[SCAN] = "a_unlock" => (appliedNow = cleared /\ journal_pending_count = 0))

\* the tick has applied a write to bit 7 of the last byte of bool_memory
C15_Witness ==
    /\ pc[SCAN] = "a_unlock"
    /\ Len(cleared) = 1
    /\ cleared[1].buffer_type = JOURNAL_BOOL_MEMORY
    /\ cleared[1].bit_index = 7
    /\ cleared[1].index = BUFFER_SIZE - 1
    /\ image[Cell(JOURNAL_BOOL_MEMORY, BUFFER_SIZE - 1, 7)] = 1
    /\ journal_pending_count = 0

(***************************************************************************)
(* C16.  journal_apply_and_clear on an empty journal changes no cell of    *)
(* the image tables; after an apply with no write following it the journal *)
(* is empty, so a second apply leaves the tables as the first one left     *)
(* them.                                                                   *)
(***************************************************************************)
C16_EmptyApplyNoOp ==
    /\ [][(pc[SCAN] \in {"a_lock", "a_loop", "a_unlock"} /\ journal_pending_count = 0)
            => image' = image]_vars
    /\ [](nStored = JOURNAL_MAX_ENTRIES + 2 => journal_pending_count = 0)

\* a later tick has run its apply on the empty journal: the cell written by the
\* first apply keeps its value
C16_Witness ==
    /\ pc[SCAN] = "a_unlock"
    /\ nStored = JOURNAL_MAX_ENTRIES + 2
    /\ cleared = <<>>
    /\ appliedNow = <<>>
    /\ image[Cell(JOURNAL_LINT_MEMORY, 0, 0)] = 2147483647

\* what a request addresses by the configuration: the buffer type, the size of
\* one element, the first element and the number of elements
TagType(r) == RuntimeOf(r).type

TagFirst(r) == RuntimeOf(r).start_buffer + (r.start \div get_type_size(TagType(r)))

TagCount(r) == r.size \div get_type_size(TagType(r))

\* the cells of the image tables a request addresses
TagCells(r) ==
    {Cell(RuntimeTable(TagType(r)), TagFirst(r) + e, b) :
        e \in 0..(TagCount(r) - 1),
        b \in IF S7Family(TagType(r)) = "bool" THEN 0..7 ELSE {0}}

\* the request covers whole elements, all of them bound cells of the table
TagInTable(r) ==
    /\ r.size % get_type_size(TagType(r)) = 0
    /\ \A c \in TagCells(r) : c \in Cells /\ image[c] # NULL

(***************************************************************************)
(* C17.  A protocol read of area A at byte offset o and length L returns   *)
(* the transcoding of the family A maps to, from element                   *)
(* A.start_buffer + o / element_size for L / element_size elements: the    *)
(* bytes of each 16-, 32- or 64-bit element most significant first, and    *)
(* bit b of element i of a bool family in bit b of byte i; int_input[0..1] *)
(* = 0x1234, 0x5678 reads as 12 34 56 78.  Stated of the bound cells       *)
(* inside the table, when the copy is over and the image mutex still held. *)
(***************************************************************************)
C17_ReadTranscodes ==
    (pc[S7] = "c_give" /\ S7Family(TagType(rd.tag)) # "none") =>
        LET r == rd.tag
            es == get_type_size(TagType(r))
            table == RuntimeTable(TagType(r))
        IN
        /\ \A e \in 0..(TagCount(r) - 1) :
            TagFirst(r) + e < BUFFER_SIZE =>
                IF S7Family(TagType(r)) = "bool"
                THEN \A b \in 0..7 :
                        LET v == image[Cell(table, TagFirst(r) + e, b)] IN
                        v # NULL =>
                            (rd.dest[e + 1] \div (2 ^ b)) % 2 = (IF v # 0 THEN 1 ELSE 0)
                ELSE LET v == image[Cell(table, TagFirst(r) + e, 0)] IN
                     v # NULL =>
                        \A j \in 0..(es - 1) :
                            rd.dest[e * es + j + 1] = ByteOf(v, es - 1 - j)
        /\ ( /\ r.area = "srvAreaDB" /\ r.db = 10 /\ r.start = 0 /\ r.size = 4
             /\ image[Cell(JOURNAL_INT_INPUT, 0, 0)] = 4660
             /\ image[Cell(JOURNAL_INT_INPUT, 1, 0)] = 22136 )
           => rd.dest = <<18, 52, 86, 120>>

\* the client has read 4 bytes at offset 0 of data block 10
C17_Witness ==
    /\ pc[S7] = "c_give"
    /\ rd.tag.area = "srvAreaDB"
    /\ rd.tag.db = 10
    /\ rd.tag.start = 0
    /\ rd.dest = <<18, 52, 86, 120>>

\* the cells the control program of the model writes in every tick
ProgramCells == {Cell(JOURNAL_INT_OUTPUT, 0, 0), Cell(JOURNAL_INT_OUTPUT, 1, 0)}

OutputOrMemory ==
    {"BUFFER_TYPE_BOOL_OUTPUT", "BUFFER_TYPE_BOOL_MEMORY", "BUFFER_TYPE_INT_OUTPUT",
     "BUFFER_TYPE_INT_MEMORY", "BUFFER_TYPE_DINT_OUTPUT", "BUFFER_TYPE_DINT_MEMORY",
     "BUFFER_TYPE_LINT_OUTPUT", "BUFFER_TYPE_LINT_MEMORY"}

InputTypes ==
    {JOURNAL_BOOL_INPUT, JOURNAL_BYTE_INPUT, JOURNAL_INT_INPUT, JOURNAL_DINT_INPUT,
     JOURNAL_LINT_INPUT}

InputCells == {c \in Cells : c[1] \in InputTypes}

(***************************************************************************)
(* C19.  A protocol write to an area mapped to an input family never       *)
(* changes a cell of the image tables, then or at any later tick, and      *)
(* returns success.  In this specification the S7 thread is the only       *)
(* source of writes to the input families, so no step changes an input     *)
(* cell.                                                                   *)
(***************************************************************************)
C19_InputWritesDropped ==
    /\ [][\A c \in InputCells : image'[c] = image[c]]_vars
    /\ []( ( /\ rd.n > 0
             /\ rd.op = "none"
             /\ rd.tag.ok
             /\ rd.tag.op = "write"
             /\ RuntimeOf(rd.tag) # NoRuntime
             /\ TagType(rd.tag) \notin OutputOrMemory )
           => rd.result = 0 )

(***************************************************************************)
(* C19, what the code does.  A protocol write to an area mapped to an      *)
(* input family is journalled like any other: every journal_write_* call   *)
(* of the write loop passes the input family's type code and is stored,    *)
(* the apply stores the value in the input table, and the callback         *)
(* returns 0.                                                              *)
(***************************************************************************)
C19_InputWritesJournalled ==
    /\ [][( /\ rd.op = "write"
            /\ TagType(rd.tag) \notin OutputOrMemory
            /\ pc[S7] = "idle"
            /\ pc'[S7] # "idle" )
          => /\ pc'[S7] = "w_lock"
             /\ req'[S7].buffer_type \in InputTypes
             /\ req'[S7].buffer_type = map_to_journal_type(rd.type)]_vars
    /\ [][\A c \in InputCells :
            image'[c] # image[c] =>
                \E t \in {SCAN, S7} :
                    /\ loop_i'[t] = loop_i[t] + 1
                    /\ TargetOf(g_entries[loop_i[t] + 1]) = c
                    /\ image'[c] = g_entries[loop_i[t] + 1].value]_vars
    /\ []( ( /\ rd.n > 0
             /\ rd.op = "none"
             /\ rd.tag.ok
             /\ rd.tag.op = "write"
             /\ RuntimeOf(rd.tag) # NoRuntime
             /\ TagType(rd.tag) \notin OutputOrMemory )
           => rd.result = 0 )

\* the write of 00 01 to data block 10 has returned and int_input[0], which
\* held 0x1234, holds 1
C19_Witness ==
    /\ rd.op = "none"
    /\ rd.last # NoReq
    /\ rd.last.db = 10
    /\ rd.last.data = <<0, 1>>
    /\ rd.result = 0
    /\ image[Cell(JOURNAL_INT_INPUT, 0, 0)] = 1

\* the data blocks and system areas of the model's configuration
ConfiguredDbs == {1, 4, 5, 6, 7, 10}

EnabledAreas == {"srvAreaPE", "srvAreaMK"}

\* the request names a data block or an area that is not configured
Unserved(r) ==
    IF r.area = "srvAreaDB" THEN r.db \notin ConfiguredDbs ELSE r.area \notin EnabledAreas

\* the offset of the request lies past the end of the table
PastEnd(r) == ~Unserved(r) /\ TagFirst(r) >= BUFFER_SIZE

C21_ListensOnlyWhileRunning ==
    (plugin.listening # {}) =>
        /\ plugin.g_initialized
        /\ plugin.g_running
        /\ plugin.listening = {plugin.g_server}

\* C21 (what holds for every call sequence): g_running implies g_initialized;
\* init starts no server; start_loop on a plugin that is not initialised
\* starts no server and leaves g_running false; cleanup stops and destroys
\* the server g_server names and leaves the plugin neither running nor
\* initialised.
C21_LifecycleSteps ==
    [][/\ plugin'.g_running => plugin'.g_initialized
       /\ (plugin'.calls # plugin.calls /\ plugin'.last = "init") =>
              plugin'.listening = plugin.listening
       /\ (plugin'.calls # plugin.calls /\ plugin'.last = "start_loop"
           /\ ~plugin.g_initialized) =>
              (plugin'.listening = plugin.listening /\ ~plugin'.g_running)
       /\ (plugin'.calls # plugin.calls /\ plugin'.last = "cleanup") =>
              /\ plugin.g_server \notin plugin'.listening
              /\ plugin.g_server \notin plugin'.alive
              /\ ~plugin'.g_running
              /\ ~plugin'.g_initialized
              /\ plugin'.g_server = 0]_vars

\* a cleanup of a plugin whose server was listening
C21_Witness ==
    /\ plugin.last = "cleanup"
    /\ plugin.calls = 3
    /\ plugin.nsrv = 1
    /\ plugin.alive = {}
    /\ plugin.bind_failures = 0
    /\ ~plugin.g_running

\* C22: when Srv_Start fails in start_loop, the plugin is left initialised
\* and not running, with no server of its own listening; no lifecycle call
\* frees a block or uses a server object that is already gone, and a
\* cleanup after the failure leaves the plugin unloaded.  (The witness is a
\* later start_loop that succeeds.)
C22_BindFailureKeepsInitialised ==
    /\ ~plugin.double_free
    /\ (plugin.log = "bind_failed") =>
           /\ plugin.last = "start_loop"
           /\ plugin.g_initialized
           /\ ~plugin.g_running
           /\ plugin.g_server \notin plugin.listening
    /\ (plugin.bind_failures > 0 /\ plugin.last = "cleanup") =>
           (~plugin.g_running /\ ~plugin.g_initialized /\ plugin.g_server = 0)
    /\ (plugin.bind_failures > 0 /\ plugin.last = "stop_loop") => ~plugin.g_running

C22_Witness ==
    /\ plugin.bind_failures > 0
    /\ plugin.nsrv = 1
    /\ plugin.log = "started"
    /\ plugin.g_running
    /\ plugin.g_server \in plugin.listening

\* C23 (as stated): after cleanup returns no block allocated by an earlier
\* init remains allocated and none was freed twice, for every sequence of
\* lifecycle calls.
C23_AllFreedAfterCleanup ==
    (plugin.last = "cleanup") => (plugin.live = {} /\ ~plugin.double_free)

\* C23 (what holds): the same, for the sequences in which allocate_buffers
\* never ran twice without a cleanup in between; an init that fails part-way
\* through allocation is covered.
C23_AllFreedUnlessReinit ==
    (plugin.last = "cleanup" /\ ~plugin.reinit) =>
        (plugin.live = {} /\ ~plugin.double_free)

\* a cleanup after an init that failed part-way and an init that succeeded
C23_Witness ==
    /\ plugin.last = "cleanup"
    /\ ~plugin.reinit
    /\ plugin.nalloc > 2 + MaxDataBlocks
    /\ plugin.nalloc < 2 * (2 + MaxDataBlocks)
    /\ plugin.live = {}

\* C24 (as stated): an init whose configuration file fails to parse falls
\* back to the defaults and returns success.
C24_ParseFailureInitSucceeds ==
    (plugin.last = "init" /\ plugin.parse_failed) =>
        /\ plugin.g_config = "defaults"
        /\ plugin.log = "config_failed_defaults"
        /\ plugin.ret = 0

\* C24 (amended): such an init logs the failure and falls back to the
\* defaults (g_config_loaded is not set by it); it returns success exactly
\* when Srv_Create gave it a server object, and -1 with g_server = 0
\* otherwise.  A start_loop that then starts a server starts the one made
\* with the defaults.
C24_ParseFailureFallsBack ==
    /\ (plugin.last = "init" /\ plugin.parse_failed) =>
           /\ plugin.g_config = "defaults"
           /\ plugin.log = "config_failed_defaults"
           /\ plugin.ret \in {0, -1}
           /\ (plugin.ret = 0) =>
                  (plugin.g_initialized /\ plugin.g_server = plugin.nsrv
                   /\ plugin.g_server \in plugin.defaulted)
           /\ (plugin.ret = -1) => (plugin.g_server = 0)
    /\ (plugin.last = "start_loop" /\ plugin.log = "started" /\ plugin.parse_failed) =>
           /\ plugin.g_running
           /\ plugin.g_server \in plugin.listening
           /\ plugin.g_server \in plugin.defaulted

C24_Witness ==
    /\ plugin.last = "start_loop"
    /\ plugin.log = "started"
    /\ plugin.parse_failed
    /\ ~plugin.g_config_loaded
    /\ plugin.calls = 2
    /\ plugin.listening = {plugin.g_server}

C26_SleepFromTickStart ==
    [][(loop.lpc = "sleep" /\ loop'.lpc = "top") =>
           loop'.now = IF loop.cycle_start + TickPeriodNs > loop.now
                       THEN loop.cycle_start + TickPeriodNs
                       ELSE loop.now]_vars

\* C26 (amended): the k-th sleep ends at the loop's starting time plus k
\* tick periods, or at once when the clock has passed that time; so after a
\* long body the following short ticks run back to back until the schedule
\* is regained.
C26_SleepOnSchedule ==
    [][(loop.lpc = "sleep" /\ loop'.lpc = "top") =>
           /\ loop'.timer_start = loop.tick__ * TickPeriodNs
           /\ loop'.now = IF loop.tick__ * TickPeriodNs > loop.now
                          THEN loop.tick__ * TickPeriodNs
                          ELSE loop.now]_vars

\* a short tick after a spike: the next tick starts less than one period
\* after this one started
C26_Witness ==
    /\ loop.lpc = "top"
    /\ loop.tick__ >= 2
    /\ loop.body < TickPeriodNs
    /\ loop.now - loop.cycle_start < TickPeriodNs
    /\ loop.cycle_start - loop.prev_start > TickPeriodNs

\* C27 (as stated): when sleep_until returns, keep_running has been read
\* since the tick's work was done.
C27_PolledBeforeSleep ==
    (loop.done # <<>> /\ loop.done[Len(loop.done)] = "sleep") => Len(loop.done) = 1

\* C27 (amended): keep_running is read once per pass, at the top of the
\* loop: after the previous tick's sleep and before the tick's work.  Once
\* the flag is cleared the loop begins no body it had not already decided
\* on, and it ends.
C27_PolledAtLoopTop ==
    /\ [](loop.done \in {<<>>, <<"work">>, <<"work", "sleep">>})
    /\ [][/\ (~loop.keep_running /\ loop.lpc = "top") => loop'.lpc \in {"top", "exited"}
          /\ (loop.lpc = "exited") => (loop'.lpc = "exited" /\ loop'.tick__ = loop.tick__)
          /\ (~loop.keep_running /\ loop.lpc \in {"body", "sleep"}) =>
                 loop'.lpc \in {loop.lpc, IF loop.lpc = "body" THEN "sleep" ELSE "top"}]_vars
    /\ (~loop.keep_running) ~> (loop.lpc = "exited")

C27_Witness ==
    /\ loop.lpc = "exited"
    /\ ~loop.keep_running
    /\ loop.tick__ = 2
    /\ loop.timer_start = 2 * TickPeriodNs

(***************************************************************************)
(* C28-C30: the journal's locks, its counters and journal_cleanup.          *)
(***************************************************************************)
\* C28 (as stated): a thread that holds the image mutex and calls a journal
\* write callback never comes to wait for the image mutex it holds.
C28_NeverWaitsOnOwnLock ==
    ~(pc[HOOK] = "f_lock_image" /\ image_mutex = HOOK)

\* C28 (what holds): a thread that comes to ask for the image mutex it
\* holds stays there, and its write does not return; a write that stores
\* its entry without a flush leaves the image mutex alone.
C28_BlockedOnOwnLock ==
    [][/\ (pc[HOOK] = "f_lock_image" /\ image_mutex = HOOK) =>
              (pc'[HOOK] = "f_lock_image" /\ image_mutex' = HOOK /\ ret'[HOOK] = NULL)
       /\ (pc[HOOK] = "w_lock" /\ pc'[HOOK] = "idle") =>
              (image_mutex' = image_mutex /\ ret'[HOOK] = 0)]_vars

\* the thread waits for its own image mutex, and the other writer, whose
\* flush needs the same mutex, waits behind it
C28_Witness ==
    /\ image_mutex = HOOK
    /\ pc[HOOK] = "f_lock_image"
    /\ pc["w1"] = "f_lock_image"
    /\ g_count = JOURNAL_MAX_ENTRIES

\* C29: whenever the journal mutex is free, 0 <= g_count <= JOURNAL_MAX_ENTRIES,
\* g_next_sequence equals g_count, and the i-th pending entry (from 0) carries
\* sequence i; so the sequence counter never exceeds the capacity.
C29_SequenceIsPosition ==
    Free(g_journal_mutex) =>
        /\ g_count >= 0
        /\ g_count <= JOURNAL_MAX_ENTRIES
        /\ journal_get_sequence = journal_pending_count
        /\ g_next_sequence <= JOURNAL_MAX_ENTRIES
        /\ \A i \in 1..g_count : g_entries[i].sequence = i - 1

\* a journal that is full again after an emergency flush has reset the
\* counters
C29_Witness ==
    /\ Free(g_journal_mutex)
    /\ g_count = JOURNAL_MAX_ENTRIES
    /\ g_next_sequence = JOURNAL_MAX_ENTRIES
    /\ g_entries[g_count].sequence = JOURNAL_MAX_ENTRIES - 1
    /\ lastFlushed # NoReq

\* C30 as stated: once journal_cleanup has returned (g_initialized is false
\* until the next journal_init), journal_pending_count() is 0.
C30_NothingPendingAfterCleanup ==
    (~g_initialized /\ Free(g_journal_mutex) /\ pc["w1"] # "crashed") =>
        journal_pending_count = 0

\* C30: journal_cleanup leaves g_count at 0 and drops the pending entries; a
\* journal_write_* call that begins while g_initialized is false returns -1
\* and stores nothing; while g_initialized is false no step of
\* journal_apply_and_clear or of an emergency flush changes an image cell;
\* and whenever the journal mutex is free the pending entries are exactly
\* the entries stored since the last journal_init, journal_cleanup or apply,
\* so an entry that was pending at cleanup is never applied.  (A write call
\* that had passed its test of g_initialized when journal_cleanup ran is
\* outside this statement.)
C30_CleanupStopsNewCalls ==
    /\ [][(g_initialized /\ ~g_initialized') =>
            /\ journal_pending_count' = 0
            /\ enqSince' = <<>>
            /\ image' = image]_vars
    /\ [][(~g_initialized /\ pc["w1"] = "idle"
           /\ <<pc["w1"], ret["w1"], req["w1"]>>' # <<pc["w1"], ret["w1"], req["w1"]>>) =>
            /\ pc'["w1"] = "idle"
            /\ ret'["w1"] = -1
            /\ UNCHANGED <<g_count, g_entries, g_next_sequence, image>>]_vars
    /\ [][(~g_initialized /\ image' # image) =>
            /\ pc[SCAN] \in {"t_run1", "t_run2"}
            /\ pc'[SCAN] # pc[SCAN]]_vars
    /\ []((Free(g_journal_mutex) /\ pc["w1"] # "crashed") =>
            /\ journal_pending_count = Len(enqSince)
            /\ \A i \in 1..g_count : g_entries[i] = enqSince[i])
    /\ [][(pc[SCAN] = "a_loop" /\ image' # image) =>
            /\ loop_i[SCAN] < Len(enqSince)
            /\ image' = apply_entry(image, enqSince[loop_i[SCAN] + 1])]_vars

\* journal_cleanup has returned after entries had been applied, the journal
\* is empty, and a journal_write_int call with a valid type was refused
C30_Witness ==
    /\ ~g_initialized
    /\ pc[MAIN] = "idle"
    /\ journal_pending_count = 0
    /\ cleared # <<>>
    /\ pc["w1"] = "idle"
    /\ ret["w1"] = -1
    /\ req["w1"] # NoReq
    /\ req["w1"].fn = "int"
    /\ req["w1"].buffer_type \in IntTypes
    /\ pc[SCAN] = "t_cycle_start"

(***************************************************************************)
(* C31-C40                                                                 *)
(***************************************************************************)
\* C31 as stated: no call racing with journal_cleanup passes the zeroed
\* g_buffer_ptrs.image_mutex to pthread_mutex_lock or pthread_mutex_unlock.
C31_NeverNullImageMutex == pc["w1"] # "crashed"

\* C31: the null image mutex is reached only inside an emergency flush that
\* finds g_initialized false; the apply loops, run with the zeroed
\* g_buffer_ptrs, change no image cell, and journal_apply_and_clear goes on
\* to clear the journal and release the journal mutex.
C31_OnlyFlushMeetsNull ==
    /\ [][(pc'["w1"] = "crashed" /\ pc["w1"] # "crashed") =>
            /\ pc["w1"] \in {"f_lock_image", "f_unlock_image"}
            /\ ~g_initialized]_vars
    /\ [][(~g_initialized /\ pc[SCAN] = "a_loop") =>
            /\ image' = image
            /\ pc'[SCAN] \in {"a_loop", "a_unlock"}]_vars
    /\ [][(~g_initialized /\ pc["w1"] = "f_loop") => image' = image]_vars

\* journal_apply_and_clear passed its test of g_initialized before
\* journal_cleanup ran and is applying an entry stored after it
C31_Witness ==
    /\ ~g_initialized
    /\ pc[SCAN] = "a_loop"
    /\ loop_i[SCAN] = 1
    /\ journal_pending_count > 0
    /\ pc["w1"] # "crashed"

C33_FrameInCellOrder ==
    /\ [](rd.op = "write" =>
            LET done == rd.i + (IF ret[S7] = 0 THEN 1 ELSE 0)
                mine == Min(done, g_count)
                cell(c) == IF S7Family(rd.type) = "bool"
                           THEN <<rd.start_buffer + (c \div 8), c % 8>>
                           ELSE <<rd.start_buffer + c, NO_BIT>>
            IN \A j \in (g_count - mine + 1)..g_count :
                /\ g_entries[j].buffer_type = map_to_journal_type(rd.type)
                /\ <<g_entries[j].index, g_entries[j].bit_index>>
                      = cell(done - g_count + j - 1))
    /\ [][\A t \in {SCAN, S7} :
            loop_i'[t] = loop_i[t] + 1 =>
                /\ appliedNow' = Append(appliedNow, g_entries[loop_i[t] + 1])
                /\ image' = apply_entry(image, g_entries[loop_i[t] + 1])]_vars
    /\ [](image[Cell(JOURNAL_BOOL_MEMORY, BUFFER_SIZE - 1, 7)] = 1
            => image[Cell(JOURNAL_BOOL_MEMORY, BUFFER_SIZE - 1, 0)] = 1)
    /\ [](image[Cell(JOURNAL_BOOL_INPUT, 0, 1)] = 0
            => image[Cell(JOURNAL_BOOL_INPUT, 0, 0)] = 1)
    /\ [](image[Cell(JOURNAL_BOOL_INPUT, 1, 1)] = 1
            => /\ image[Cell(JOURNAL_BOOL_INPUT, 0, 0)] = 1
               /\ image[Cell(JOURNAL_BOOL_INPUT, 0, 1)] = 0)

\* the frame that writes 129 to the memory byte is at its last bit: bit 0 has
\* been applied, an emergency flush of the S7 thread has applied entries of
\* the frame since the last tick, and bit 7 is not yet stored
C33_Witness ==
    /\ rd.op = "write"
    /\ rd.type = "BUFFER_TYPE_BOOL_MEMORY"
    /\ rd.i = 7
    /\ image[Cell(JOURNAL_BOOL_MEMORY, BUFFER_SIZE - 1, 0)] = 1
    /\ image[Cell(JOURNAL_BOOL_MEMORY, BUFFER_SIZE - 1, 7)] = 0
    /\ lastFlushed # NoReq
    /\ lastFlushed.buffer_type = JOURNAL_BOOL_MEMORY
    /\ journal_pending_count > 0

C35_DisabledServesNothing ==
    (plugin.g_initialized /\ ~Config(plugin.g_config).enabled) =>
        /\ plugin.alive = {}
        /\ plugin.live = {}
        /\ plugin.listening = {}

\* C35: an init call that reads server.enabled = false returns 0 with the
\* plugin initialised and creates no server object and allocates no buffer;
\* start_loop with that configuration starts no server and leaves g_running
\* alone; and when no init before it had created a server or allocated a
\* buffer, nothing exists and nothing listens.
C35_DisabledCreatesNothing ==
    /\ [][(plugin'.last = "init" /\ plugin'.calls = plugin.calls + 1
           /\ plugin'.g_config = "file_disabled") =>
            /\ plugin'.alive = plugin.alive
            /\ plugin'.nsrv = plugin.nsrv
            /\ plugin'.live = plugin.live
            /\ plugin'.nalloc = plugin.nalloc
            /\ plugin'.listening = plugin.listening
            /\ plugin'.g_server = plugin.g_server
            /\ plugin.g_config # "file_disabled" =>
                  (plugin'.ret = 0 /\ plugin'.g_initialized)]_vars
    /\ [][(plugin'.last = "start_loop" /\ plugin'.calls = plugin.calls + 1
           /\ plugin.g_config = "file_disabled") =>
            /\ plugin'.listening = plugin.listening
            /\ plugin'.g_running = plugin.g_running
            /\ plugin'.bind_failures = plugin.bind_failures]_vars
    /\ []((plugin.g_initialized /\ plugin.g_config = "file_disabled"
           /\ plugin.nsrv = 0 /\ plugin.nalloc = 0) =>
            /\ plugin.alive = {}
            /\ plugin.live = {}
            /\ plugin.listening = {}
            /\ plugin.g_server = 0
            /\ ~plugin.g_running)

\* init with server.enabled = false has returned 0 on a freshly loaded
\* plugin and start_loop has been called after it
C35_Witness ==
    /\ plugin.last = "start_loop"
    /\ plugin.calls = 2
    /\ plugin.g_initialized
    /\ plugin.g_config = "file_disabled"
    /\ plugin.g_config_loaded
    /\ plugin.ret = 0
    /\ plugin.nsrv = 0
    /\ plugin.listening = {}

\* C36 as stated: an area mapped to byte_output is served like the other
\* families: a returned read holds the bytes of the mapped image cells, and
\* a returned write has been emitted as a journal write of the byte family
\* (pending, or applied to the cell by a tick).
C36_ByteAreasServed ==
    LET r == rd.tag
        byte == /\ rd.n > 0
                /\ r.ok
                /\ ~Unserved(r)
                /\ TagType(r) = "BUFFER_TYPE_BYTE_OUTPUT"
                /\ rd.op = "none"
    IN
    /\ (byte /\ r.op = "read") =>
           rd.dest = [e \in 1..r.size |->
                          image[Cell(JOURNAL_BYTE_OUTPUT, TagFirst(r) + e - 1, 0)]]
    /\ (byte /\ r.op = "write") =>
           \A e \in 1..r.size :
               \/ image[Cell(JOURNAL_BYTE_OUTPUT, TagFirst(r) + e - 1, 0)] = r.data[e]
               \/ \E k \in 1..Len(g_entries) :
                     /\ g_entries[k].buffer_type = JOURNAL_BYTE_OUTPUT
                     /\ g_entries[k].index = TagFirst(r) + e - 1
                     /\ g_entries[k].value = r.data[e]

\* C36: what the plugin does with a data block mapped to byte_output: the
\* callback makes no journal call for it, leaves the client's buffer as it
\* was passed and returns 0; no entry of a byte family is ever pending and
\* no cell of byte_output ever changes.
C36_ByteAreasPassedOver ==
    /\ []( ( /\ rd.n > 0
             /\ rd.tag.ok
             /\ ~Unserved(rd.tag)
             /\ TagType(rd.tag) = "BUFFER_TYPE_BYTE_OUTPUT" )
           => /\ req[S7] = NoReq
              /\ rd.dest = rd.tag.data
              /\ (rd.op = "none" => rd.result = 0) )
    /\ [](\A k \in 1..Len(g_entries) : g_entries[k].buffer_type \notin ByteTypes)
    /\ [][\A i \in 0..(BUFFER_SIZE - 1) :
            image'[Cell(JOURNAL_BYTE_OUTPUT, i, 0)] =
                image[Cell(JOURNAL_BYTE_OUTPUT, i, 0)]]_vars

\* a read of one byte of the data block mapped to byte_output has returned 0
\* with the client's buffer still 0 while byte_output[0] holds 85
C36_Witness ==
    /\ rd.n > 0
    /\ rd.op = "none"
    /\ rd.tag = Rq("read", "srvAreaDB", 7, 0, <<0>>)
    /\ rd.result = 0
    /\ rd.dest = <<0>>
    /\ image[Cell(JOURNAL_BYTE_OUTPUT, 0, 0)] = 85

\* C37: for every request of the RW callback on a configured area, the
\* journal writes the plugin emits carry indices in [0, N) and the copy of a
\* read changes the client's buffer only at the elements whose index lies in
\* [0, N): the element count is clamped to N minus the start index, and a
\* start index >= N yields no journal call and no copy.
C37_IndicesInTable ==
    /\ [](req[S7] # NoReq => req[S7].index \in 0..(BUFFER_SIZE - 1))
    /\ [](\A k \in 1..Len(g_entries) : g_entries[k].index \in 0..(BUFFER_SIZE - 1))
    /\ []( (rd.op = "write" /\ S7Family(rd.type) # "none") =>
               LET per == IF S7Family(rd.type) = "bool" THEN 8 ELSE 1
                   count == IF S7Family(rd.type) = "bool" THEN rd.tag.size
                            ELSE rd.tag.size \div get_type_size(rd.type)
               IN /\ rd.i <= per * Min(count, BUFFER_SIZE - rd.start_buffer)
                  /\ rd.start_buffer >= BUFFER_SIZE => rd.i = 0 )
    /\ []( (pc[S7] = "c_give" /\ S7Family(rd.type) # "none") =>
               \A k \in 1..Len(rd.dest) :
                   rd.start_buffer + ((k - 1) \div get_type_size(rd.type)) >= BUFFER_SIZE
                       => rd.dest[k] = rd.tag.data[k] )

\* the write of two words at the last word of int_memory has made its one
\* journal call, for index N - 1, and the loop has ended
C37_Witness ==
    /\ rd.op = "write"
    /\ rd.tag = Rq("write", "srvAreaDB", 6, 2 * (BUFFER_SIZE - 1), <<0, 1, 0, 2>>)
    /\ rd.start_buffer = BUFFER_SIZE - 1
    /\ rd.i = 1
    /\ ret[S7] = NULL
    /\ req[S7] = NoReq

\* C38 as stated: once symbols_init has returned -1, no entry point of the
\* control program has been invoked and the scan loop is not entered.
C38_FailedLoadStops ==
    (loop.lpc # "start" /\ loop.load_ret = -1) =>
        /\ loop.invoked = {}
        /\ loop.lpc \notin {"top", "body", "sleep", "exited"}

\* C38: what holds after a failed load.  When symbols_init returns -1
\* without having set ext_setBufferPointers (no library, or one of the five
\* entry points missing), or with the library unmapped, the call main makes
\* next ends the process: no entry point is invoked and the loop is not
\* entered.  The loop is entered only with all five entry points resolved,
\* and config_run__ and updateTime run only with the tick period resolved
\* too.
C38_FailedLoadCrashes ==
    /\ ( /\ loop.lpc # "start"
         /\ loop.load_ret = -1
         /\ ("setBufferPointers" \notin loop.resolved \/ loop.handle = "unmapped") )
       => /\ loop.lpc = "crashed"
          /\ loop.invoked = {}
    /\ loop.lpc \in {"top", "body", "sleep", "exited"} =>
          /\ {SymbolOrder[k] : k \in 1..5} \subseteq loop.resolved
          /\ {"setBufferPointers", "config_init__", "glueVars"} \subseteq loop.invoked
    /\ "config_run__" \in loop.invoked => loop.load_ret = 0
    /\ (loop.load_ret = -1 /\ loop.lpc # "start") =>
          loop.lpc \in {"top", "body", "crashed", "exited"}

\* dlopen does not find the library: symbols_init has returned -1 and the
\* call of ext_setBufferPointers through the NULL pointer has ended the
\* process
C38_Witness ==
    /\ loop.load_ret = -1
    /\ loop.handle = "none"
    /\ loop.resolved = {}
    /\ loop.keep_running
    /\ loop.lpc = "crashed"
    /\ loop.invoked = {}

\* C39: after n >= 1 completed pairs of scan_cycle_time_start and
\* scan_cycle_time_end, scan_count is n, overruns is at most n and never
\* decreases, scan_time_min and scan_time_max are the smallest and the
\* largest scan time observed, and scan_time_min <= scan_time_avg <=
\* scan_time_max.
C39_TimingStatistics ==
    /\ [](LET n == Len(loop.scans) IN
          n >= 1 =>
            /\ loop.scan_count = n
            /\ loop.overruns \in 0..n
            /\ loop.scan_time_min \in {loop.scans[k] : k \in 1..n}
            /\ \A k \in 1..n : loop.scan_time_min <= loop.scans[k]
            /\ loop.scan_time_max \in {loop.scans[k] : k \in 1..n}
            /\ \A k \in 1..n : loop.scans[k] <= loop.scan_time_max
            /\ loop.scan_time_min <= loop.scan_time_avg
            /\ loop.scan_time_avg <= loop.scan_time_max)
    /\ [][loop'.overruns >= loop.overruns]_vars

\* three passes with a long, a short and a long body: the scan times differ,
\* the mean lies strictly between the extremes and the difference of the
\* second pass was negative
C39_Witness ==
    /\ Len(loop.scans) = 3
    /\ loop.scans[1] > loop.scans[2]
    /\ loop.scans[3] > loop.scans[2]
    /\ loop.scan_time_min < loop.scan_time_avg
    /\ loop.scan_time_avg < loop.scan_time_max
    /\ loop.overruns >= 1

\* C40: every pending journal entry has a buffer type in 0..13 and a
\* bit_index in 0..7 when the type is of a bool family, 0xFF otherwise; a
\* call that goes on to store an entry carries a type of the family of the
\* function called; so the entry an apply loop passes to apply_entry next
\* never names a bool slot with a bit outside 0..7.
C40_EntriesWellTyped ==
    /\ [](\A k \in 1..Len(g_entries) :
            LET e == g_entries[k] IN
            /\ e.buffer_type \in 0..13
            /\ e.buffer_type \in BoolTypes => e.bit_index \in 0..7
            /\ e.buffer_type \notin BoolTypes => e.bit_index = NO_BIT)
    /\ [](\A w \in Writers \cup {EDGE} :
            (pc[w] # "idle" /\ req[w] # NoReq) =>
                /\ req[w].buffer_type \in
                       (CASE req[w].fn = "bool" -> BoolTypes
                          [] req[w].fn = "int" -> IntTypes
                          [] req[w].fn = "dint" -> DintTypes
                          [] req[w].fn = "lint" -> LintTypes
                          [] OTHER -> ByteTypes)
                /\ req[w].bit_index = (IF req[w].fn = "bool" THEN req[w].bit_index % 8
                                       ELSE NO_BIT))
    /\ [][\A w \in Writers \cup {EDGE} :
            (g_next_sequence' = g_next_sequence + 1 /\ pc[w] # "idle" /\ pc'[w] # pc[w])
                => /\ g_entries'[g_count'].buffer_type = req[w].buffer_type
                   /\ g_entries'[g_count'].bit_index = req[w].bit_index]_vars
    /\ [](\A t \in Writers \cup {EDGE} :
            (pc[t] = "f_loop" /\ loop_i[t] < g_count) =>
                LET e == g_entries[loop_i[t] + 1] IN
                e.buffer_type \in BoolTypes => e.bit_index \in 0..7)

\* EDGE's journal_write_bool with bit index 8 has returned -1 while a bool
\* entry with bit index 0 and an int entry with bit index 0xFF are pending
C40_Witness ==
    /\ pc[EDGE] = "idle"
    /\ req[EDGE] # NoReq
    /\ req[EDGE].fn = "bool"
    /\ req[EDGE].bit_index = 8
    /\ ret[EDGE] = -1
    /\ g_count = 2
    /\ \E k \in 1..g_count :
          g_entries[k].buffer_type \in BoolTypes /\ g_entries[k].bit_index = 0
    /\ \E k \in 1..g_count :
          g_entries[k].buffer_type \in IntTypes /\ g_entries[k].bit_index = NO_BIT

====
